---- MODULE Spec2Model ----
(***************************************************************************)
(* Model of the search core of OpenBookings/Search_API:                    *)
(*   - buildSearchPlan  (services/search.plan.ts)                          *)
(*   - the candidate query builder and runner (unnamed/part_001)           *)
(*   - the stages and the orchestrator search() (services/...)             *)
(*                                                                         *)
(* JavaScript values are tagged records.  A JS number is a record too, so  *)
(* that NaN, the infinities, fractions and magnitudes beyond 32 bits keep  *)
(* their behaviour:                                                        *)
(*   [k |-> "fin", i, f]   the real number i + f/Scale, 0 <= f < Scale     *)
(*   [k |-> "nan"]         NaN                                             *)
(*   [k |-> "inf", s]      +Infinity (s = 1) or -Infinity (s = -1)         *)
(*   [k |-> "maxsafe"]     Number.MAX_SAFE_INTEGER (2^53 - 1)              *)
(*   [k |-> "huge"]        a finite double above MAX_SAFE_INTEGER (1e300)  *)
(* Binary rounding of doubles is not modelled: arithmetic on "fin" is      *)
(* exact decimal arithmetic.                                               *)
(***************************************************************************)
EXTENDS Integers, Sequences, FiniteSets, TLC

\* Fraction units of a "fin" number: four decimal digits.
Scale == 10 * 10 * 10 * 10

(***************************************************************************)
(* JS numbers                                                              *)
(***************************************************************************)
Fin(i, f) == [k |-> "fin", i |-> i, f |-> f]
Int2Num(i) == Fin(i, 0)
NaN == [k |-> "nan"]
PosInf == [k |-> "inf", s |-> 1]
NegInf == [k |-> "inf", s |-> -1]
MAX_SAFE_INTEGER == [k |-> "maxsafe"]
Huge == [k |-> "huge"]

\* Number.isFinite
NumberIsFinite(x) == x.k \in {"fin", "maxsafe", "huge"}

\* Magnitude class of a non-NaN number; "fin" values are compared inside class 0.
NumClass(x) ==
  CASE x.k = "inf" -> 3 * x.s
    [] x.k = "huge" -> 2
    [] x.k = "maxsafe" -> 1
    [] OTHER -> 0

\* a < b as JS evaluates it (false when either side is NaN)
NumLT(a, b) ==
  /\ a.k # "nan"
  /\ b.k # "nan"
  /\ \/ NumClass(a) < NumClass(b)
     \/ /\ a.k = "fin"
        /\ b.k = "fin"
        /\ \/ a.i < b.i
           \/ (a.i = b.i /\ a.f < b.f)

NumGT(a, b) == NumLT(b, a)

\* a <= b as JS evaluates it
NumLE(a, b) == a.k # "nan" /\ b.k # "nan" /\ ~NumLT(b, a)

NumGE(a, b) == NumLE(b, a)

\* Math.min / Math.max of two numbers (NaN if either is NaN)
MathMin(a, b) ==
  IF a.k = "nan" \/ b.k = "nan" THEN NaN
  ELSE IF NumLT(b, a) THEN b ELSE a

MathMax(a, b) ==
  IF a.k = "nan" \/ b.k = "nan" THEN NaN
  ELSE IF NumLT(a, b) THEN b ELSE a

\* Math.floor
MathFloor(x) == IF x.k = "fin" THEN Fin(x.i, 0) ELSE x

\* Math.ceil
MathCeil(x) ==
  IF x.k = "fin" THEN (IF x.f = 0 THEN x ELSE Fin(x.i + 1, 0)) ELSE x

\* a + b for finite operands (above 2^53 the sum stays a finite huge double)
NumAdd(a, b) ==
  IF a.k = "nan" \/ b.k = "nan" THEN NaN
  ELSE IF a.k = "fin" /\ b.k = "fin"
    THEN Fin(a.i + b.i + ((a.f + b.f) \div Scale), (a.f + b.f) % Scale)
  ELSE IF a.k = "inf" THEN a
  ELSE IF b.k = "inf" THEN b
  ELSE Huge

\* x * 1000
NumTimes1000(x) ==
  IF x.k = "fin"
    THEN Fin(x.i * 1000 + ((x.f * 1000) \div Scale), (x.f * 1000) % Scale)
  ELSE IF x.k = "maxsafe" THEN Huge
  ELSE x

(***************************************************************************)
(* JS values.  Text that the code parses (dates, numeric strings) is held  *)
(* as a tuple of characters under field c; text that the code only         *)
(* compares (column names) is held as a string under field s.              *)
(***************************************************************************)
Undefined == [t |-> "undefined"]
Null == [t |-> "null"]
Num(x) == [t |-> "number", n |-> x]
Str(s) == [t |-> "string", s |-> s]
Txt(c) == [t |-> "string", c |-> c]
Obj(o) == [t |-> "object", o |-> o]
Bool(b) == [t |-> "boolean", b |-> b]
Arr(a) == [t |-> "array", a |-> a]

\* value === undefined || value === null
IsNullish(v) == v.t \in {"undefined", "null"}

\* property read o.key of a plain object (undefined when absent)
Get(o, key) == IF key \in DOMAIN o THEN o[key] ELSE Undefined

\* the object o after o[key] = v
WithKey(o, key, v) ==
  [k \in DOMAIN o \cup {key} |-> IF k = key THEN v ELSE o[k]]


(***************************************************************************)
(* Text helpers                                                            *)
(***************************************************************************)
WhiteSpace == {" ", "\t", "\n"}
DigitChars == <<"0", "1", "2", "3", "4", "5", "6", "7", "8", "9">>

IsDigit(ch) == \E d \in 1..10 : DigitChars[d] = ch
DigitVal(ch) == (CHOOSE d \in 1..10 : DigitChars[d] = ch) - 1
AllDigits(c) == \A j \in 1..Len(c) : IsDigit(c[j])

RECURSIVE DigitsVal(_)
\* the decimal value of a tuple of digits
DigitsVal(c) ==
  IF c = <<>> THEN 0
  ELSE 10 * DigitsVal(SubSeq(c, 1, Len(c) - 1)) + DigitVal(c[Len(c)])

RECURSIVE TrimStart(_)
TrimStart(c) ==
  IF c # <<>> /\ c[1] \in WhiteSpace THEN TrimStart(Tail(c)) ELSE c

RECURSIVE TrimEnd(_)
TrimEnd(c) ==
  IF c # <<>> /\ c[Len(c)] \in WhiteSpace
    THEN TrimEnd(SubSeq(c, 1, Len(c) - 1))
  ELSE c

\* String.prototype.trim
Trim(c) == TrimEnd(TrimStart(c))

\* -(i + f/Scale) in floor/fraction form
NumNeg(i, f) == IF f = 0 THEN Fin(-i, 0) ELSE Fin(-i - 1, Scale - f)

\* the first 4 fraction digits of a digit tuple, as units of 1/Scale
FracVal(c) ==
  LET pad == c \o <<"0", "0", "0", "0">>
  IN DigitsVal(SubSeq(pad, 1, 4))

\* the position of the first "." of body, or one past its end
DotIndex(body) ==
  IF \E j \in 1..Len(body) : body[j] = "."
    THEN CHOOSE j \in 1..Len(body) :
           body[j] = "." /\ \A q \in 1..(j - 1) : body[q] # "."
  ELSE Len(body) + 1

\* the number with integer digits ip and fraction digits fp
DecimalOf(negative, ip, fp) ==
  IF ~(AllDigits(ip) /\ AllDigits(fp) /\ Len(ip) + Len(fp) >= 1) THEN NaN
  ELSE IF negative THEN NumNeg(DigitsVal(ip), FracVal(fp))
  ELSE Fin(DigitsVal(ip), FracVal(fp))

UnsignedDecimal(negative, body, dot) ==
  DecimalOf(negative, SubSeq(body, 1, dot - 1),
            SubSeq(body, dot + 1, Len(body)))

SignedDecimal(negative, body) ==
  UnsignedDecimal(negative, body, DotIndex(body))

TrimmedToNumber(t) ==
  IF t = <<>> THEN Int2Num(0)
  ELSE SignedDecimal(t[1] = "-", IF t[1] \in {"-", "+"} THEN Tail(t) ELSE t)

\* Number(string) for decimal literals: optional sign, digits, optional
\* fraction; the empty or blank string is 0; anything else is NaN.
StringToNumber(c) == TrimmedToNumber(Trim(c))

\* Number(value)
ToNumber(v) ==
  CASE v.t = "undefined" -> NaN
    [] v.t = "null" -> Int2Num(0)
    [] v.t = "boolean" -> Int2Num(IF v.b THEN 1 ELSE 0)
    [] v.t = "number" -> v.n
    [] v.t = "string" -> StringToNumber(v.c)
    [] OTHER -> NaN

(***************************************************************************)
(* Dates.  Date.getTime() is a count of milliseconds near 1.8e12; it is    *)
(* held as [day, ms]: whole days since 1970-01-01 and milliseconds of the  *)
(* day, so that differences of a few days stay within 32 bits.             *)
(***************************************************************************)
MS_PER_DAY == 24 * 60 * 60 * 1000

InvalidDate == [valid |-> FALSE, day |-> 0, ms |-> 0]

IsLeap(y) == (y % 4 = 0 /\ y % 100 # 0) \/ y % 400 = 0

DaysInMonth(y, m) ==
  IF m = 2 THEN (IF IsLeap(y) THEN 29 ELSE 28)
  ELSE IF m \in {4, 6, 9, 11} THEN 30 ELSE 31

\* days from 1970-01-01 to the civil date y-m-d (proleptic Gregorian)
DaysFromCivil(y, m, d) ==
  LET yy == IF m <= 2 THEN y - 1 ELSE y
      era == yy \div 400
      yoe == yy - era * 400
      mp == IF m > 2 THEN m - 3 ELSE m + 9
      doy == ((153 * mp + 2) \div 5) + d - 1
      doe == yoe * 365 + (yoe \div 4) - (yoe \div 100) + doy
  IN era * 146097 + doe - 719468

\* the date y-m-d at 00:00 UTC, invalid when no such day exists
CivilDate(y, m, d) ==
  IF m \in 1..12 /\ d >= 1 /\ d <= DaysInMonth(y, m)
    THEN [valid |-> TRUE, day |-> DaysFromCivil(y, m, d), ms |-> 0]
  ELSE InvalidDate

\* "YYYY-MM-DD" at positions 1..10 of c
DatePart(c) ==
  IF /\ AllDigits(SubSeq(c, 1, 4))
     /\ c[5] = "-"
     /\ AllDigits(SubSeq(c, 6, 7))
     /\ c[8] = "-"
     /\ AllDigits(SubSeq(c, 9, 10))
    THEN CivilDate(DigitsVal(SubSeq(c, 1, 4)), DigitsVal(SubSeq(c, 6, 7)),
                   DigitsVal(SubSeq(c, 9, 10)))
  ELSE InvalidDate

\* h:mi as milliseconds of the day (-1: no such time)
ClockMs(h, mi) ==
  IF h <= 23 /\ mi <= 59 THEN (h * 60 + mi) * 60 * 1000 ELSE -1

\* "THH:MMZ" at positions 11..17 of c, in milliseconds of the day (-1: malformed)
TimePart(c) ==
  IF /\ c[11] = "T"
     /\ AllDigits(SubSeq(c, 12, 13))
     /\ c[14] = ":"
     /\ AllDigits(SubSeq(c, 15, 16))
     /\ c[17] = "Z"
    THEN ClockMs(DigitsVal(SubSeq(c, 12, 13)), DigitsVal(SubSeq(c, 15, 16)))
  ELSE -1

DateTime(date, ms) ==
  IF date.valid /\ ms >= 0
    THEN [valid |-> TRUE, day |-> date.day, ms |-> ms]
  ELSE InvalidDate

\* new Date(text) for the ISO 8601 forms YYYY-MM-DD and YYYY-MM-DDTHH:MMZ
\* (both UTC); every other text of the input universe is an Invalid Date.
NewDate(c) ==
  IF Len(c) = 10 THEN DatePart(c)
  ELSE IF Len(c) = 17 THEN DateTime(DatePart(c), TimePart(c))
  ELSE InvalidDate

\* a.getTime() >= b.getTime()
TimeGE(a, b) == a.day > b.day \/ (a.day = b.day /\ a.ms >= b.ms)

\* a.getTime() - b.getTime(), in milliseconds
TimeDiff(a, b) == (a.day - b.day) * MS_PER_DAY + (a.ms - b.ms)

(***************************************************************************)
(* services/search.plan.ts                                                 *)
(***************************************************************************)
SearchPlanErrorCode ==
  {"INVALID_CHECK_IN", "INVALID_CHECK_OUT", "INVALID_LATITUDE",
   "INVALID_LONGITUDE", "ARRIVAL_AFTER_DEPARTURE", "STAY_TOO_SHORT",
   "NO_GUESTS", "INVALID_GUEST_COUNTS"}

\* throw new SearchPlanValidationError(code, ...)
Throw(code) == [ok |-> FALSE, name |-> "SearchPlanValidationError", code |-> code]
\* normal completion with a value
Return(v) == [ok |-> TRUE, value |-> v]

DEFAULT_PAGE == 1
DEFAULT_PAGE_SIZE == 20
DEFAULT_RADIUS_KM == 10
MIN_RADIUS_KM == 1
MAX_RADIUS_KM == 500
MIN_PAGE == 1
MIN_PAGE_SIZE == 1
MAX_PAGE_SIZE == 100
LAT_MIN == -90
LAT_MAX == 90
LON_MIN == -180
LON_MAX == 180

DateErrorCode(field) ==
  IF field = "checkIn" THEN "INVALID_CHECK_IN" ELSE "INVALID_CHECK_OUT"

DateOrThrow(d, field) ==
  IF ~d.valid THEN Throw(DateErrorCode(field)) ELSE Return(d)

TrimmedDate(t, field) ==
  IF t = <<>> THEN Throw(DateErrorCode(field))
  ELSE DateOrThrow(NewDate(t), field)

parseDate(value, field) ==
  IF value.t # "string" THEN Throw(DateErrorCode(field))
  ELSE TrimmedDate(Trim(value.c), field)

\* Mutant of FloorClamp: the value is clamped without being floored.
FloorClamp_NoFloor(n, defaultVal, min, max) ==
  IF ~NumberIsFinite(n) THEN defaultVal
  ELSE MathMin(max, MathMax(min, n))

\* Math.min(max, Math.max(min, Math.floor(n))), or the default
FloorClamp(n, defaultVal, min, max) ==
  IF ~NumberIsFinite(n) THEN defaultVal
  ELSE MathMin(max, MathMax(min, MathFloor(n)))

parseNumber(value, defaultVal, min, max) ==
  IF IsNullish(value) THEN defaultVal
  ELSE FloorClamp(ToNumber(value), defaultVal, min, max)

\* Mutant of CheckGeo: the latitude has no upper bound.
CheckGeo_NoUpperLatitude(la, lo) ==
  IF ~NumberIsFinite(la) THEN Throw("INVALID_LATITUDE")
  ELSE IF NumLT(la, Int2Num(LAT_MIN)) THEN Throw("INVALID_LATITUDE")
  ELSE IF ~NumberIsFinite(lo) THEN Throw("INVALID_LONGITUDE")
  ELSE IF NumLT(lo, Int2Num(LON_MIN)) \/ NumGT(lo, Int2Num(LON_MAX))
    THEN Throw("INVALID_LONGITUDE")
  ELSE Return([lat |-> la, lon |-> lo])

\* the checks of parseGeo on la = Number(latitude), lo = Number(longitude)
CheckGeo(la, lo) ==
  IF ~NumberIsFinite(la) THEN Throw("INVALID_LATITUDE")
  ELSE IF NumLT(la, Int2Num(LAT_MIN)) \/ NumGT(la, Int2Num(LAT_MAX))
    THEN Throw("INVALID_LATITUDE")
  ELSE IF ~NumberIsFinite(lo) THEN Throw("INVALID_LONGITUDE")
  ELSE IF NumLT(lo, Int2Num(LON_MIN)) \/ NumGT(lo, Int2Num(LON_MAX))
    THEN Throw("INVALID_LONGITUDE")
  ELSE Return([lat |-> la, lon |-> lo])

parseGeo(input) ==
  CheckGeo(ToNumber(input.latitude), ToNumber(input.longitude))

\* Mutant of ClampRadius: the radius has no upper clamp.
ClampRadius_NoUpper(n) ==
  IF ~NumberIsFinite(n) THEN Int2Num(DEFAULT_RADIUS_KM)
  ELSE MathMax(Int2Num(MIN_RADIUS_KM), n)

\* Math.min(MAX_RADIUS_KM, Math.max(MIN_RADIUS_KM, n)), or the default
ClampRadius(n) ==
  IF ~NumberIsFinite(n) THEN Int2Num(DEFAULT_RADIUS_KM)
  ELSE MathMin(Int2Num(MAX_RADIUS_KM), MathMax(Int2Num(MIN_RADIUS_KM), n))

RadiusOf(r) ==
  IF IsNullish(r) THEN Int2Num(DEFAULT_RADIUS_KM)
  ELSE ClampRadius(ToNumber(r))

extractRadiusKm(filters) ==
  IF filters.t # "object" THEN Int2Num(DEFAULT_RADIUS_KM)
  ELSE RadiusOf(IF IsNullish(Get(filters.o, "radiusKm"))
                  THEN Get(filters.o, "radius")
                ELSE Get(filters.o, "radiusKm"))

\* Mutant of CheckGuests: a party of zero guests is let through.
CheckGuests_AllowsZero(adults, children) ==
  IF \/ ~NumberIsFinite(adults)
     \/ NumLT(adults, Int2Num(0))
     \/ ~NumberIsFinite(children)
     \/ NumLT(children, Int2Num(0))
    THEN Throw("INVALID_GUEST_COUNTS")
  ELSE IF NumLT(NumAdd(adults, children), Int2Num(0)) THEN Throw("NO_GUESTS")
  ELSE Return([guests |-> NumAdd(adults, children), children |-> children])

\* lines 128-141 on adults = Number(input.adults) and
\* children = Number(input.children ?? 0)
CheckGuests(adults, children) ==
  IF \/ ~NumberIsFinite(adults)
     \/ NumLT(adults, Int2Num(0))
     \/ ~NumberIsFinite(children)
     \/ NumLT(children, Int2Num(0))
    THEN Throw("INVALID_GUEST_COUNTS")
  ELSE IF NumLE(NumAdd(adults, children), Int2Num(0)) THEN Throw("NO_GUESTS")
  ELSE Return([guests |-> NumAdd(adults, children), children |-> children])

\* Mutant of GuestCounts: a missing children count is not taken as 0.
GuestCounts_NoChildrenDefault(input) ==
  CheckGuests(ToNumber(input.adults), ToNumber(input.children))

GuestCounts(input) ==
  CheckGuests(ToNumber(input.adults),
              ToNumber(IF IsNullish(input.children) THEN Num(Int2Num(0))
                       ELSE input.children))

\* Mutant of Nights: a started day counts as a night.
Nights_RoundedUp(checkInDate, checkOutDate) ==
  (TimeDiff(checkOutDate, checkInDate) + MS_PER_DAY - 1) \div MS_PER_DAY

\* Math.floor((checkOut - checkIn) / MS_PER_DAY)
Nights(checkInDate, checkOutDate) ==
  TimeDiff(checkOutDate, checkInDate) \div MS_PER_DAY

\* lines 143-165: the plan, once dates and guest counts are valid
PlanOf(input, checkInDate, checkOutDate, nights, gc, geo) ==
  IF ~geo.ok THEN geo
  ELSE Return([input |-> input,
               checkInDate |-> checkInDate,
               checkOutDate |-> checkOutDate,
               nights |-> nights,
               guests |-> gc.guests,
               page |-> parseNumber(input.page, Int2Num(DEFAULT_PAGE),
                                    Int2Num(MIN_PAGE), MAX_SAFE_INTEGER),
               pageSize |-> parseNumber(input.pageSize,
                                        Int2Num(DEFAULT_PAGE_SIZE),
                                        Int2Num(MIN_PAGE_SIZE),
                                        Int2Num(MAX_PAGE_SIZE)),
               geo |-> geo.value,
               radius |-> extractRadiusKm(input.filters),
               hasChildren |-> NumGT(gc.children, Int2Num(0)),
               options |-> IF input.filters.t = "object"
                             THEN Obj(input.filters.o)
                           ELSE Undefined])

\* lines 126-141
PlanGuests(input, checkInDate, checkOutDate, nights, gc) ==
  IF ~gc.ok THEN gc
  ELSE PlanOf(input, checkInDate, checkOutDate, nights, gc.value,
              parseGeo(input))

\* lines 118-124
PlanNights(input, checkInDate, checkOutDate, nights) ==
  IF nights < 1 THEN Throw("STAY_TOO_SHORT")
  ELSE PlanGuests(input, checkInDate, checkOutDate, nights,
                  GuestCounts(input))

\* Mutant of PlanDates: the check-out date is checked before the check-in
\* date.
PlanDates_CheckOutFirst(input, ci, co) ==
  IF ~co.ok THEN co
  ELSE IF ~ci.ok THEN ci
  ELSE IF TimeGE(ci.value, co.value) THEN Throw("ARRIVAL_AFTER_DEPARTURE")
  ELSE PlanNights(input, ci.value, co.value, Nights(ci.value, co.value))

\* lines 108-116
PlanDates(input, ci, co) ==
  IF ~ci.ok THEN ci
  ELSE IF ~co.ok THEN co
  ELSE IF TimeGE(ci.value, co.value) THEN Throw("ARRIVAL_AFTER_DEPARTURE")
  ELSE PlanNights(input, ci.value, co.value, Nights(ci.value, co.value))

buildSearchPlan(input) ==
  PlanDates(input, parseDate(input.checkIn, "checkIn"),
            parseDate(input.checkOut, "checkOut"))

(***************************************************************************)
(* The candidate query (unnamed/part_001, lines 164-328).                  *)
(* SQL text is a tuple of tokens, one per piece of the template literals:  *)
(*   [k |-> "lit", s]    fixed text of the source                          *)
(*   [k |-> "col", s]    a string value interpolated as a column name      *)
(*   [k |-> "param", n]  the placeholder $n                                *)
(***************************************************************************)
Lit(s) == [k |-> "lit", s |-> s]
Col(s) == [k |-> "col", s |-> s]
Param(n) == [k |-> "param", n |-> n]

RECURSIVE Join(_, _)
\* parts.join(sep): the concatenation of the token tuples in parts
Join(parts, sep) ==
  IF parts = <<>> THEN <<>>
  ELSE IF Len(parts) = 1 THEN parts[1]
  ELSE parts[1] \o <<sep>> \o Join(Tail(parts), sep)

CANDIDATE_HARD_LIMIT == 1000
CANDIDATE_HARD_LIMIT_MAX == 3000

\* plan.options?.key
OptionsGet(plan, key) ==
  IF plan.options.t = "object" THEN Get(plan.options.o, key) ELSE Undefined

\* Mutant of resolveCandidateLimit: the override is not capped.
resolveCandidateLimit_NoCeiling(plan) ==
  LET opt == OptionsGet(plan, "candidateHardLimit")
  IN IF opt.t = "number" /\ NumberIsFinite(opt.n) /\ NumGT(opt.n, Int2Num(0))
       THEN MathFloor(opt.n)
     ELSE Int2Num(CANDIDATE_HARD_LIMIT)

resolveCandidateLimit(plan) ==
  LET opt == OptionsGet(plan, "candidateHardLimit")
  IN IF opt.t = "number" /\ NumberIsFinite(opt.n) /\ NumGT(opt.n, Int2Num(0))
       THEN MathMin(MathFloor(opt.n), Int2Num(CANDIDATE_HARD_LIMIT_MAX))
     ELSE Int2Num(CANDIDATE_HARD_LIMIT)

CAPACITY_COLUMNS == {"max_guests", "maximum_guests", "capacity"}
GEO_COLUMNS == {"location", "geo"}

\* Mutant of getCapacityColumn: any string is taken as the column.
getCapacityColumn_AnyString(plan) ==
  LET c == OptionsGet(plan, "capacityColumn")
  IN IF c.t = "string" THEN c ELSE Null

\* the selected capacity column as a JS value: a string, or null
getCapacityColumn(plan) ==
  LET c == OptionsGet(plan, "capacityColumn")
  IN IF c.t = "string" /\ c.s \in CAPACITY_COLUMNS THEN c ELSE Null

getGeoColumn(plan) ==
  LET c == OptionsGet(plan, "geoColumn")
  IN IF c.t = "string" /\ c.s \in GEO_COLUMNS THEN c.s ELSE "location"

\* if (plan.geo)
PlanHasGeo(plan) == "geo" \in DOMAIN plan

\* lines 222-284 on capCol = getCapacityColumn(plan), geoCol =
\* getGeoColumn(plan), hasGeo = Boolean(plan.geo) and hardLimit =
\* resolveCandidateLimit(plan)
CandidateSql(plan, capCol, geoCol, hasGeo, hardLimit) ==
  LET hasCap == capCol.t = "string"
      capCond ==
        IF hasCap
          THEN << <<Lit("p."), Col(capCol.s), Lit(" >= "), Param(1)>> >>
        ELSE <<>>
      capValues == IF hasCap THEN <<plan.guests>> ELSE <<>>
      capSelect ==
        IF ~hasCap THEN <<>>
        ELSE IF capCol.s = "maximum_guests"
          THEN << <<Lit("p.maximum_guests AS max_guests")>> >>
        ELSE IF capCol.s = "capacity"
          THEN << <<Lit("p.capacity AS max_guests")>> >>
        ELSE << <<Lit("p.max_guests")>> >>
      pos1 == IF hasCap THEN 2 ELSE 1
      lonParam == pos1
      latParam == pos1 + 1
      radiusParam == pos1 + 2
      withParams ==
        IF hasGeo
          THEN <<Lit("WITH params AS ( SELECT ST_SetSRID(ST_MakePoint("),
                 Param(lonParam), Lit(", "), Param(latParam),
                 Lit("), 4326)::geography AS p )")>>
        ELSE <<>>
      geoCond ==
        IF hasGeo
          THEN << <<Lit("ST_DWithin(p."), Col(geoCol),
                    Lit("::geography, params.p, "), Param(radiusParam),
                    Lit(")")>> >>
        ELSE <<>>
      geoValues ==
        IF hasGeo
          THEN <<plan.geo.lon, plan.geo.lat, NumTimes1000(plan.radius)>>
        ELSE <<>>
      geoSelect ==
        IF hasGeo
          THEN << <<Lit("ST_Distance(p."), Col(geoCol),
                    Lit("::geography, params.p) AS distance_meters")>> >>
        ELSE <<>>
      limitParam == IF hasGeo THEN pos1 + 3 ELSE pos1
      conditions == capCond \o geoCond
      selectParts ==
        << <<Lit("p.id")>>, <<Lit("p.name")>>, <<Lit("p.city")>>,
           <<Lit("p.country")>> >> \o capSelect \o geoSelect
      whereClause ==
        IF conditions # <<>> THEN Join(conditions, Lit(" AND "))
        ELSE <<Lit("TRUE")>>
  IN [text |->
        withParams
        \o <<Lit("SELECT ")>> \o Join(selectParts, Lit(", "))
        \o <<Lit("FROM properties p")>>
        \o (IF hasGeo THEN <<Lit(", params")>> ELSE <<>>)
        \o <<Lit("WHERE ")>> \o whereClause
        \o <<Lit("ORDER BY p.id")>>
        \o <<Lit("LIMIT "), Param(limitParam)>>,
      values |-> capValues \o geoValues \o <<hardLimit>>]

\* Mutant of buildCandidateSql: the row limit is written into the text.
buildCandidateSql_InlineLimit(plan) ==
  LET q == CandidateSql(plan, getCapacityColumn(plan), getGeoColumn(plan),
                        PlanHasGeo(plan), resolveCandidateLimit(plan))
  IN [text |-> SubSeq(q.text, 1, Len(q.text) - 1)
                 \o <<Lit(ToString(q.values[Len(q.values)].i))>>,
      values |-> SubSeq(q.values, 1, Len(q.values) - 1)]

\* Mutant of buildCandidateSql: the conditions are joined with OR.
buildCandidateSql_AnyCondition(plan) ==
  LET q == CandidateSql(plan, getCapacityColumn(plan), getGeoColumn(plan),
                        PlanHasGeo(plan), resolveCandidateLimit(plan))
  IN [text |-> [j \in 1..Len(q.text) |->
                  IF q.text[j] = Lit(" AND ") THEN Lit(" OR ")
                  ELSE q.text[j]],
      values |-> q.values]

\* Mutant of buildCandidateSql: the text has no ORDER BY.
buildCandidateSql_Unordered(plan) ==
  [text |->
     SelectSeq(CandidateSql(plan, getCapacityColumn(plan), getGeoColumn(plan),
                            PlanHasGeo(plan),
                            resolveCandidateLimit(plan)).text,
               LAMBDA tok : tok.k # "lit" \/ tok.s # "ORDER BY p.id"),
   values |->
     CandidateSql(plan, getCapacityColumn(plan), getGeoColumn(plan),
                  PlanHasGeo(plan), resolveCandidateLimit(plan)).values]

buildCandidateSql(plan) ==
  CandidateSql(plan, getCapacityColumn(plan), getGeoColumn(plan),
               PlanHasGeo(plan), resolveCandidateLimit(plan))

(***************************************************************************)
(* The data store: what the text and values sent by query() select from    *)
(* the properties table.  A stored row has an id, a name, a city, a        *)
(* country, a guest capacity and a position in whole degrees.              *)
(***************************************************************************)
\* rows in the properties table, at most
MaxRows == 3

\* the i-th stored row; physical order is not id order
StoredRow(i) ==
  [id |-> 100 - i,
   name |-> IF i % 2 = 0 THEN Null ELSE Str("Canal House"),
   city |-> IF i % 3 = 0 THEN Null ELSE Str("Amsterdam"),
   country |-> Str("NL"),
   capacity |-> i,
   lat |-> 52,
   lon |-> 4 + (i % 2)]

\* the table holding the first n rows
Table(n) == [i \in 1..n |-> StoredRow(i)]

Abs(x) == IF x < 0 THEN -x ELSE x

\* ST_Distance between a stored position and the point (lon, lat), in
\* metres: 111 km per degree of latitude and of longitude.
STDistance(row, lon, lat) ==
  Int2Num(111000 * (Abs(row.lat - lat.i) + Abs(row.lon - lon.i)))

IsLit(tok, s) == tok.k = "lit" /\ tok.s = s

\* the placeholder numbers n such that the tokens of pattern, in order,
\* occur in text ending in the placeholder $n ("?" matches any column name)
ParamsAfter(text, pattern) ==
  {text[j + Len(pattern) + 1].n : j \in
     {j \in 0..(Len(text) - Len(pattern) - 1) :
        /\ \A q \in 1..Len(pattern) :
             IF pattern[q] = "?" THEN text[j + q].k = "col"
             ELSE IsLit(text[j + q], pattern[q])
        /\ text[j + Len(pattern) + 1].k = "param"}}

HasLit(text, s) == \E j \in 1..Len(text) : IsLit(text[j], s)

RECURSIVE SortById(_)
\* ORDER BY p.id over a set of rows
SortById(rows) ==
  IF rows = {} THEN <<>>
  ELSE LET first == CHOOSE r \in rows : \A o \in rows : r.id <= o.id
       IN <<first>> \o SortById(rows \ {first})

\* LIMIT n
TakeLimit(rows, n) ==
  IF n.k # "fin" THEN rows
  ELSE IF n.i <= 0 THEN <<>>
  ELSE SubSeq(rows, 1, IF n.i < Len(rows) THEN n.i ELSE Len(rows))

\* the row as the SELECT list projects it
Project(r, withDistance, withCapacity, lon, lat) ==
  [id |-> r.id, name |-> r.name, city |-> r.city, country |-> r.country,
   distance_meters |->
     IF withDistance THEN Num(STDistance(r, lon, lat)) ELSE Undefined,
   max_guests |->
     IF withCapacity THEN Num(Int2Num(r.capacity)) ELSE Undefined]

\* ORDER BY and LIMIT over the rows that pass WHERE
OrderAndLimit(hits, ordered, limP, v) ==
  TakeLimit(IF ordered THEN SortById({hits[j] : j \in 1..Len(hits)})
            ELSE hits,
            IF limP = {} THEN Huge ELSE v[CHOOSE n \in limP : TRUE])

\* the query with placeholders capP in capacity conditions, radP in radius
\* conditions and limP in LIMIT, around the point (lon, lat)
Select(text, v, table, capP, radP, limP, lon, lat) ==
  LET pass(r) ==
        /\ \A n \in capP : NumGE(Int2Num(r.capacity), v[n])
        /\ \A n \in radP : NumLE(STDistance(r, lon, lat), v[n])
      project(r) == Project(r, radP # {}, capP # {}, lon, lat)
      rows == OrderAndLimit(SelectSeq(table, pass),
                            HasLit(text, "ORDER BY p.id"), limP, v)
  IN [j \in DOMAIN rows |-> project(rows[j])]

\* the point of WITH params: placeholder lonP is the longitude, lonP + 1 the
\* latitude (lonP = 0: the text has no WITH params)
SelectAround(text, v, table, lonP) ==
  Select(text, v, table,
         ParamsAfter(text, <<"p.", "?", " >= ">>),
         ParamsAfter(text, <<"ST_DWithin(p.", "?", "::geography, params.p, ">>),
         ParamsAfter(text, <<"LIMIT ">>),
         IF lonP = 0 THEN NaN ELSE v[lonP],
         IF lonP = 0 THEN NaN ELSE v[lonP + 1])

\* the rows the store returns for a query text and its bound values
ExecQuery(q, table) ==
  SelectAround(q.text, q.values, table,
    LET ps == ParamsAfter(q.text,
                <<"WITH params AS ( SELECT ST_SetSRID(ST_MakePoint(">>)
    IN IF ps = {} THEN 0 ELSE CHOOSE n \in ps : TRUE)

\* the orders in which the store may hold, and scan, the rows of table
PhysicalOrders(table) ==
  {[j \in 1..Len(table) |-> table[p[j]]] :
     p \in Permutations(1..Len(table))}

\* Boolean(value) for the values a row field holds
Truthy(v) == ~IsNullish(v)

mapRowToCandidate(r) ==
  [id |-> ToString(r.id),
   name |-> IF IsNullish(r.name) THEN Str("") ELSE r.name,
   location |->
     LET parts == SelectSeq(<<r.city, r.country>>, Truthy)
     IN IF parts = <<>> THEN Undefined
        ELSE IF Len(parts) = 1 THEN parts[1]
        ELSE Str(parts[1].s \o ", " \o parts[2].s),
   distance_meters |->
     IF ~IsNullish(r.distance_meters)
       THEN Str(ToString(MathFloor(ToNumber(r.distance_meters)).i)
                \o " Meters")
     ELSE Undefined,
   maxGuests |->
     IF ~IsNullish(r.max_guests) THEN Num(ToNumber(r.max_guests))
     ELSE Undefined]

\* rows.map(mapRowToCandidate) over rows that are objects
MapRows(rows) == [j \in 1..Len(rows) |-> mapRowToCandidate(rows[j])]

\* the TypeError of reading r.id when a row r is null
RowTypeError ==
  [ok |-> FALSE, name |-> "TypeError",
   code |-> "Cannot read properties of null (reading 'id')"]

\* an element of the array the driver resolved with that is not a row object
IsBadRow(r) == r = Null

\* Mutant of MapAll: rows that cannot be mapped are left out.
MapAll_SkipsBadRows(answer) ==
  Return(MapRows(SelectSeq(answer, LAMBDA r : ~IsBadRow(r))))

\* rows.map((r) => mapRowToCandidate(r)): the first row whose mapping throws
\* ends the map, and nothing is returned
MapAll(answer) ==
  IF \E j \in 1..Len(answer) : IsBadRow(answer[j]) THEN RowTypeError
  ELSE Return(MapRows(answer))

\* what the driver may resolve a query with: the rows the query selects, or
\* those rows with one element that is null instead of a row object
StoreAnswers(q, stored) ==
  LET selected == ExecQuery(q, stored)
  IN {selected}
     \cup {[selected EXCEPT ![k] = Null] : k \in 1..Len(selected)}

(***************************************************************************)
(* The stages (services/stages, services/search/stages, unnamed/part_002,  *)
(* unnamed/part_003)                                                       *)
(***************************************************************************)
\* Mutant of availability: every candidate is passed on as available.
availability_PassThrough(plan, candidates) == candidates

availability(plan, candidates) == <<>>

stayRules(plan, properties) == properties

pricing(plan, properties) == <<>>

ranking(plan, properties) == properties

\* Mutant of Slice: past the end, the last elements are returned.
Slice_LastWhenPastEnd(properties, start, end) ==
  IF start >= Len(properties) /\ Len(properties) > 0
    THEN SubSeq(properties, 1, Len(properties))
  ELSE SubSeq(properties, start + 1,
              IF end < Len(properties) THEN end ELSE Len(properties))

\* properties.slice(start, end) for 0 <= start <= end
Slice(properties, start, end) ==
  SubSeq(properties, start + 1,
         IF end < Len(properties) THEN end ELSE Len(properties))

\* Mutant of pagination: total counts the returned page, not the full list.
pagination_TotalOfPage(plan, properties) ==
  LET size == plan.pageSize.i
      page ==
        IF plan.page.k = "fin"
          THEN Slice(properties, (plan.page.i - 1) * size,
                     (plan.page.i - 1) * size + size)
        ELSE <<>>
  IN [properties |-> page,
      pagination |-> [page |-> plan.page,
                      pageSize |-> plan.pageSize,
                      total |-> Len(page),
                      totalPages |->
                        MathMax(Int2Num(1),
                                MathCeil(Fin(Len(page) \div size,
                                  ((Len(page) % size) * Scale) \div size)))]]

pagination(plan, properties) ==
  LET total == Len(properties)
      size == plan.pageSize.i
      totalPages ==
        MathMax(Int2Num(1), MathCeil(Fin(total \div size,
                                         ((total % size) * Scale) \div size)))
      page ==
        IF plan.page.k = "fin"
          THEN Slice(properties, (plan.page.i - 1) * size,
                     (plan.page.i - 1) * size + size)
        ELSE <<>>
  IN [properties |-> page,
      pagination |-> [page |-> plan.page,
                      pageSize |-> plan.pageSize,
                      total |-> total,
                      totalPages |-> totalPages]]

(***************************************************************************)
(* Inputs of a request                                                     *)
(***************************************************************************)
Jan12 == <<"2", "0", "2", "6", "-", "0", "1", "-", "1", "2">>
Jan14 == <<"2", "0", "2", "6", "-", "0", "1", "-", "1", "4">>
Feb28 == <<"2", "0", "2", "6", "-", "0", "2", "-", "2", "8">>
Mar01 == <<"2", "0", "2", "6", "-", "0", "3", "-", "0", "1">>
Noon == <<"T", "1", "2", ":", "0", "0", "Z">>
NotADate == <<"s", "o", "o", "n">>
Month13 == <<"2", "0", "2", "6", "-", "1", "3", "-", "4", "5">>
N(i) == Num(Int2Num(i))
F(i, f) == Num(Fin(i, f))

\* <<checkIn, checkOut>>
DatePairs ==
  {<<Txt(Jan12), Txt(Jan14)>>,
   <<Txt(Jan12), Txt(Jan12)>>,
   <<Txt(Jan14), Txt(Jan12)>>,
   <<Txt(Jan12), Txt(Jan12 \o Noon)>>,
   <<Txt(Jan12 \o Noon), Txt(<<" ">> \o Jan14 \o <<" ">>)>>,
   <<Txt(Feb28), Txt(Mar01)>>,
   <<Undefined, Txt(Jan14)>>,
   <<Txt(Jan12), Txt(<<" ", " ">>)>>,
   <<Txt(NotADate), Txt(Month13)>>,
   <<Txt(Jan12), N(20260114)>>}

\* <<latitude, longitude>>
GeoPairs ==
  {<<F(52, 3676), F(4, 9041)>>,
   <<N(132), F(4, 9041)>>,
   <<N(90), N(-180)>>,
   <<F(-91, 9999), N(0)>>,
   <<Num(NaN), N(200)>>,
   <<N(52), F(180, 1)>>,
   <<N(52), Num(PosInf)>>,
   <<Undefined, N(4)>>,
   <<Txt(<<"5", "2", ".", "5">>), Txt(<<" ", "4">>)>>,
   <<Num(Huge), Num(NegInf)>>}

\* <<adults, children>>
GuestPairs ==
  {<<N(2), Undefined>>,
   <<N(0), N(0)>>,
   <<N(0), N(2)>>,
   <<N(-1), N(3)>>,
   <<N(-1), N(1)>>,
   <<Num(NaN), N(1)>>,
   <<N(2), F(-1, 5000)>>,
   <<Num(PosInf), N(0)>>,
   <<Undefined, N(2)>>,
   <<F(1, 5000), Null>>,
   <<Txt(<<"2">>), Txt(<<"1">>)>>}

\* <<page, pageSize>>
PagePairs ==
  {<<Undefined, Undefined>>,
   <<N(3), N(20)>>,
   <<F(2, 7000), N(99999)>>,
   <<N(-5), N(-5)>>,
   <<Num(NaN), Num(PosInf)>>,
   <<Num(Huge), F(20, 9000)>>,
   <<Null, Txt(<<"5", "0">>)>>,
   <<N(0), N(0)>>,
   <<Txt(<<"x">>), Num(NegInf)>>,
   <<N(2), N(1)>>}

\* filters
FilterMaps ==
  {Undefined,
   Null,
   Obj([sort |-> Str("price")]),
   Obj([radiusKm |-> N(100)]),
   Obj([radius |-> F(0, 5000)]),
   Obj([radiusKm |-> Num(NaN), radius |-> N(30)]),
   Obj([radiusKm |-> Null, radius |-> N(30)]),
   Obj([radiusKm |-> Txt(<<"2", ".", "5">>)]),
   Obj([radiusKm |-> N(9999), capacityColumn |-> Str("DROP TABLE properties")]),
   Obj([radiusKm |-> Num(Huge), geoColumn |-> Str("location; DROP TABLE p")]),
   Obj([radiusKm |-> N(200), capacityColumn |-> Str("capacity"),
        geoColumn |-> Str("geo"), candidateHardLimit |-> N(50000)]),
   Obj([radiusKm |-> N(200), capacityColumn |-> Str("max_guests"),
        candidateHardLimit |-> N(2)]),
   Obj([radiusKm |-> N(200), capacityColumn |-> Str("maximum_guests"),
        candidateHardLimit |-> F(1, 5000)]),
   Obj([radiusKm |-> N(200), candidateHardLimit |-> Str("5000")]),
   Obj([radiusKm |-> N(200), candidateHardLimit |-> F(0, 5000)]),
   Obj([radiusKm |-> Num(PosInf), candidateHardLimit |-> Num(Huge),
        capacityColumn |-> N(5), geoColumn |-> Null]),
   Obj([radiusKm |-> N(-3), candidateHardLimit |-> N(-3)]),
   Obj([candidateHardLimit |-> Num(PosInf), capacityColumn |-> Str("MAX_GUESTS")])}

MkInput(d, g, gc, pp, f) ==
  [latitude |-> g[1], longitude |-> g[2], checkIn |-> d[1],
   checkOut |-> d[2], adults |-> gc[1], children |-> gc[2],
   page |-> pp[1], pageSize |-> pp[2], filters |-> f]

\* The requests of the model: every combination of dates, position and
\* guest counts with the default pagination and no filters, and every
\* pagination and filter map with well-formed dates, positions and guest
\* counts.
Inputs ==
  {MkInput(d, g, gc, <<Undefined, Undefined>>, Undefined) :
     d \in DatePairs, g \in GeoPairs, gc \in GuestPairs}
  \cup
  {MkInput(<<Txt(Jan12), Txt(Jan14)>>, g, gc, pp, f) :
     g \in {<<F(52, 3676), F(4, 9041)>>, <<N(90), N(-180)>>},
     gc \in {<<N(2), Undefined>>, <<F(1, 5000), Null>>},
     pp \in PagePairs, f \in FilterMaps}

(***************************************************************************)
(* The orchestrator search() (services/search/search.service.ts) as a      *)
(* state machine: one step per resumption of the async function.           *)
(***************************************************************************)
VARIABLES
  input,    \* the SearchInput of the request
  table,    \* the rows of the properties table
  pc,       \* where search() is: "start", the stage it awaits, "done", "failed"
  plan,     \* the plan built for the request, or NoPlan
  calls,    \* the stage invocations made so far, in order
  settled,  \* the settlements of the stage promises so far, in order
  queries,  \* the queries sent to the data store so far, in order
  ranked,   \* the array the ranking stage returned, as it is now
  outcome,  \* the settlement of the promise search() returned
  rows,     \* Fulfilled(the rows query() resolved with), Pending before
  suspended,    \* the other invocations of search(), each at an await
  closed,       \* database module: close() has been called
  closePromise, \* database module: the promise of the first close()
  sql,          \* database module: the driver's pool
  returned      \* database module: the promises its functions returned

dbVars == <<closed, closePromise, sql, returned>>

vars == <<input, table, pc, plan, calls, settled, queries, ranked, outcome,
          rows, suspended, dbVars>>

NoPlan == [none |-> TRUE]
NoArg == [none |-> TRUE]
Pending == [state |-> "pending"]
Fulfilled(v) == [state |-> "fulfilled", value |-> v]
Rejected(e) == [state |-> "rejected", error |-> e]

\* the errors with which the data store rejects a query
StoreErrors ==
  {[ok |-> FALSE, name |-> "Error", code |-> "ECONNREFUSED"],
   [ok |-> FALSE, name |-> "Error",
    code |-> "Database pool is closed; cannot run query"]}

Call(stage, p, arg) == [stage |-> stage, plan |-> p, arg |-> arg]
Settle(stage, v) == [stage |-> stage, ok |-> TRUE, value |-> v]
Fail(stage, e) == [stage |-> stage, ok |-> FALSE, error |-> e]

\* the argument of the stage search() is awaiting
PendingArg == calls[Len(calls)].arg

\* the database module as loaded: open, no close() yet (part_001 17-39)
DbInit ==
  /\ closed = FALSE
  /\ closePromise = Null
  /\ sql = [state |-> "open", closes |-> 0, sent |-> <<>>]
  /\ returned = <<>>

Init ==
  /\ input \in Inputs
  /\ table \in {Table(n) : n \in 0..MaxRows}
  /\ pc = "start"
  /\ plan = NoPlan
  /\ calls = <<>>
  /\ settled = <<>>
  /\ queries = <<>>
  /\ ranked = NoArg
  /\ outcome = Pending
  /\ rows = Pending
  /\ suspended = <<>>
  /\ DbInit

\* Mutant of SearchFrom: a validation failure is answered with an empty page.
SearchFrom_EmptyPageOnInvalid(r) ==
  IF ~r.ok
    THEN /\ pc' = "done"
         /\ outcome' = Fulfilled([properties |-> <<>>])
         /\ UNCHANGED <<plan, calls, queries>>
  ELSE /\ plan' = r.value
       /\ calls' = Append(calls, Call("candidate", r.value, NoArg))
       /\ queries' = Append(queries, buildCandidateSql(r.value))
       /\ pc' = "candidate"
       /\ outcome' = outcome

\* search() from the value or the exception r of buildSearchPlan(input)
SearchFrom(r) ==
  IF ~r.ok
    THEN /\ pc' = "failed"
         /\ outcome' = Rejected(r)
         /\ UNCHANGED <<plan, calls, queries>>
  ELSE /\ plan' = r.value
       /\ calls' = Append(calls, Call("candidate", r.value, NoArg))
       /\ queries' = Append(queries, buildCandidateSql(r.value))
       /\ pc' = "candidate"
       /\ outcome' = outcome

\* search(input) up to its first await: the plan is built and the candidate
\* stage is invoked, which builds the query and sends it to the store.
Search ==
  /\ pc = "start"
  /\ SearchFrom(buildSearchPlan(input))
  /\ UNCHANGED <<input, table, settled, ranked,
               rows, suspended, dbVars>>

\* runCandidateQuery from the rows its query resolved with: mapped, they are
\* the candidates with which search() resumes and invokes availability; a
\* row whose mapping throws rejects runCandidateQuery, candidate() and
\* search()
CandidatesFrom(mapped) ==
  IF mapped.ok
    THEN /\ settled' = Append(settled, Settle("candidate", mapped.value))
         /\ calls' = Append(calls, Call("availability", plan, mapped.value))
         /\ pc' = "availability"
         /\ outcome' = outcome
  ELSE /\ settled' = Append(settled, Fail("candidate", mapped))
       /\ calls' = calls
       /\ pc' = "failed"
       /\ outcome' = Rejected(mapped)

\* the store answers the query: runCandidateQuery maps the rows
CandidateResolved ==
  /\ pc = "candidate"
  /\ \E stored \in PhysicalOrders(table) :
       \E answer \in StoreAnswers(queries[Len(queries)], stored) :
         /\ rows' = Fulfilled(answer)
         /\ CandidatesFrom(MapAll(answer))
  /\ UNCHANGED <<input, table, plan, queries, ranked, suspended, dbVars>>

\* Mutant of CandidateRejected: a store failure is swallowed and the pipeline
\* goes on with no candidates.
CandidateRejected_BestEffort ==
  /\ pc = "candidate"
  /\ \E e \in StoreErrors :
       settled' = Append(settled, Fail("candidate", e))
  /\ calls' = Append(calls, Call("availability", plan, <<>>))
  /\ pc' = "availability"
  /\ UNCHANGED <<input, table, plan, queries, ranked, outcome,
               rows, suspended, dbVars>>

\* the store rejects the query: the rejection passes through
\* runCandidateQuery, candidate() and the await in search().
CandidateRejected ==
  /\ pc = "candidate"
  /\ \E e \in StoreErrors :
       /\ settled' = Append(settled, Fail("candidate", e))
       /\ outcome' = Rejected(e)
  /\ pc' = "failed"
  /\ UNCHANGED <<input, table, plan, calls, queries, ranked,
               rows, suspended, dbVars>>

\* Mutant of AvailabilityDone: the stay-rules stage is handed the candidates
\* instead of the availability stage's output.
AvailabilityDone_PassesCandidates ==
  /\ pc = "availability"
  /\ LET available == availability(plan, PendingArg)
     IN /\ settled' = Append(settled, Settle("availability", available))
        /\ calls' = Append(calls, Call("stayRules", plan, PendingArg))
  /\ pc' = "stayRules"
  /\ UNCHANGED <<input, table, plan, queries, ranked, outcome,
               rows, suspended, dbVars>>

AvailabilityDone ==
  /\ pc = "availability"
  /\ LET available == availability(plan, PendingArg)
     IN /\ settled' = Append(settled, Settle("availability", available))
        /\ calls' = Append(calls, Call("stayRules", plan, available))
  /\ pc' = "stayRules"
  /\ UNCHANGED <<input, table, plan, queries, ranked, outcome,
               rows, suspended, dbVars>>

StayRulesDone ==
  /\ pc = "stayRules"
  /\ LET afterStayRules == stayRules(plan, PendingArg)
     IN /\ settled' = Append(settled, Settle("stayRules", afterStayRules))
        /\ calls' = Append(calls, Call("pricing", plan, afterStayRules))
  /\ pc' = "pricing"
  /\ UNCHANGED <<input, table, plan, queries, ranked, outcome,
               rows, suspended, dbVars>>

PricingDone ==
  /\ pc = "pricing"
  /\ LET priced == pricing(plan, PendingArg)
     IN /\ settled' = Append(settled, Settle("pricing", priced))
        /\ calls' = Append(calls, Call("ranking", plan, priced))
  /\ pc' = "ranking"
  /\ UNCHANGED <<input, table, plan, queries, ranked, outcome,
               rows, suspended, dbVars>>

\* Mutant of RankingDone: the ranking stage records the sort it applied in
\* plan.options.
RankingDone_WritesOptions ==
  /\ pc = "ranking"
  /\ LET rankedList == ranking(plan, PendingArg)
     IN /\ settled' = Append(settled, Settle("ranking", rankedList))
        /\ calls' = Append(calls, Call("pagination", plan, rankedList))
        /\ ranked' = rankedList
  /\ plan' = IF plan.options.t = "object"
               THEN [plan EXCEPT !.options =
                       Obj(WithKey(plan.options.o, "sort", Str("rank")))]
             ELSE plan
  /\ pc' = "pagination"
  /\ UNCHANGED <<input, table, queries, outcome,
               rows, suspended, dbVars>>

RankingDone ==
  /\ pc = "ranking"
  /\ LET rankedList == ranking(plan, PendingArg)
     IN /\ settled' = Append(settled, Settle("ranking", rankedList))
        /\ calls' = Append(calls, Call("pagination", plan, rankedList))
        /\ ranked' = rankedList
  /\ pc' = "pagination"
  /\ UNCHANGED <<input, table, plan, queries, outcome,
               rows, suspended, dbVars>>

PaginationDone ==
  /\ pc = "pagination"
  /\ LET result == pagination(plan, PendingArg)
     IN /\ settled' = Append(settled, Settle("pagination", result))
        /\ outcome' = Fulfilled(result)
  /\ pc' = "done"
  /\ UNCHANGED <<input, table, plan, calls, queries, ranked,
               rows, suspended, dbVars>>

Next ==
  \/ Search
  \/ CandidateResolved
  \/ CandidateRejected
  \/ AvailabilityDone
  \/ StayRulesDone
  \/ PricingDone
  \/ RankingDone
  \/ PaginationDone

Spec == Init /\ [][Next]_vars

(***************************************************************************)
(* The caller of search() keeps the input object it passed, and may write  *)
(* to it while search() is suspended at an await.  plan.input is that very *)
(* object (`input,` in the plan literal), so the plan shows what the       *)
(* caller wrote; plan.options is a copy made by the spread of the filter   *)
(* map when the plan was built.                                            *)
(***************************************************************************)
\* the writes the caller makes: input.checkIn = "2026-03-01", and
\* input.filters.capacityColumn = "capacity" when there is a filter map
CallerWrites ==
  {[input EXCEPT !.checkIn = Txt(Mar01)]}
  \cup (IF input.filters.t = "object"
          THEN {[input EXCEPT !.filters =
                   Obj(WithKey(input.filters.o, "capacityColumn",
                               Str("capacity")))]}
        ELSE {})

CallerMutatesInput ==
  /\ plan # NoPlan
  /\ \E written \in CallerWrites :
       /\ written # input
       /\ input' = written
       /\ plan' = [plan EXCEPT !.input = written]
  /\ UNCHANGED <<table, pc, calls, settled, queries, ranked, outcome,
               rows, suspended, dbVars>>

NextWithCaller == Next \/ CallerMutatesInput

SpecWithCaller == Init /\ [][NextWithCaller]_vars

(***************************************************************************)
(* Several invocations of search() in one process.  search() runs from its *)
(* call or from the settlement it awaits to its next await without         *)
(* interruption; between two such steps the event loop may resume any      *)
(* other invocation.  What an invocation holds (input, plan, the stage     *)
(* results) is local to its call of search(); the invocations share the    *)
(* data store.                                                             *)
(***************************************************************************)
\* the invocation that is running: its locals and its history
Running ==
  [input |-> input, pc |-> pc, plan |-> plan, calls |-> calls,
   settled |-> settled, queries |-> queries, ranked |-> ranked,
   outcome |-> outcome, rows |-> rows]

\* an invocation search(in) that has not run yet
NotStarted(in) ==
  [input |-> in, pc |-> "start", plan |-> NoPlan, calls |-> <<>>,
   settled |-> <<>>, queries |-> <<>>, ranked |-> NoArg,
   outcome |-> Pending, rows |-> Pending]

\* the requests of two invocations
ConcurrentInputs ==
  LET stay == <<Txt(Jan12), Txt(Jan14)>>
      at == <<F(52, 3676), F(4, 9041)>>
      party == <<N(2), Undefined>>
      requests ==
        {MkInput(stay, at, party, <<Undefined, Undefined>>, Undefined),
         MkInput(stay, <<N(52), N(4)>>, <<N(1), N(1)>>, <<N(2), N(1)>>,
                 Obj([radiusKm |-> N(200), capacityColumn |-> Str("capacity"),
                      candidateHardLimit |-> N(2)])),
         MkInput(stay, <<N(52), N(5)>>, <<N(3), N(0)>>, <<N(3), N(20)>>,
                 Obj([radiusKm |-> N(200),
                      capacityColumn |-> Str("max_guests")])),
         MkInput(<<Txt(Jan14), Txt(Jan12)>>, at, party,
                 <<Undefined, Undefined>>, Undefined)}
  IN requests \X requests

ConcurrentInit ==
  /\ \E pair \in ConcurrentInputs :
       /\ input = pair[1]
       /\ suspended = <<NotStarted(pair[2])>>
  /\ table \in {Table(n) : n \in 0..MaxRows}
  /\ pc = "start"
  /\ plan = NoPlan
  /\ calls = <<>>
  /\ settled = <<>>
  /\ queries = <<>>
  /\ ranked = NoArg
  /\ outcome = Pending
  /\ rows = Pending
  /\ DbInit

\* Mutant of Switch: the plan is kept in a variable of the module, which
\* every invocation reads, instead of a local of search().
Switch_SharedPlan ==
  \E k \in 1..Len(suspended) :
    /\ input' = suspended[k].input
    /\ pc' = suspended[k].pc
    /\ plan' = IF plan = NoPlan THEN suspended[k].plan ELSE plan
    /\ calls' = suspended[k].calls
    /\ settled' = suspended[k].settled
    /\ queries' = suspended[k].queries
    /\ ranked' = suspended[k].ranked
    /\ outcome' = suspended[k].outcome
    /\ rows' = suspended[k].rows
    /\ suspended' = [suspended EXCEPT ![k] = Running]
    /\ UNCHANGED <<table, dbVars>>

\* the event loop leaves the running invocation at its await (or at its
\* end) and resumes another one
Switch ==
  \E k \in 1..Len(suspended) :
    /\ input' = suspended[k].input
    /\ pc' = suspended[k].pc
    /\ plan' = suspended[k].plan
    /\ calls' = suspended[k].calls
    /\ settled' = suspended[k].settled
    /\ queries' = suspended[k].queries
    /\ ranked' = suspended[k].ranked
    /\ outcome' = suspended[k].outcome
    /\ rows' = suspended[k].rows
    /\ suspended' = [suspended EXCEPT ![k] = Running]
    /\ UNCHANGED <<table, dbVars>>

NextConcurrent == Next \/ Switch

ConcurrentSpec == ConcurrentInit /\ [][NextConcurrent]_vars

(***************************************************************************)
(* The database module (unnamed/part_001, lines 1-105) on its own: callers *)
(* call isClosed(), query(), getClient() and close() in any order, and the *)
(* driver's pool settles what was sent to it at any later time.  Each      *)
(* function runs without interruption up to the promise it returns.        *)
(***************************************************************************)
\* calls of the module's functions, at most
MaxDbCalls == 4

PoolClosedError(what) ==
  [ok |-> FALSE, name |-> "Error",
   code |-> "Database pool is closed; cannot " \o what]

\* the errors with which the driver rejects what was sent to it
DriverErrors ==
  {[ok |-> FALSE, name |-> "Error", code |-> "ECONNREFUSED"],
   [ok |-> FALSE, name |-> "Error", code |-> "Connection closed"]}

\* the return of one call: op is the function, result its return value
Returned(op, result) == [op |-> op, result |-> result]

\* the pool after sql.unsafe(), sql.reserve() or sql.close() was called
Sent(what) == [sql EXCEPT !.sent = Append(@, what)]

PoolInit ==
  /\ DbInit
  /\ input = Undefined
  /\ table = Table(0)
  /\ pc = "db"
  /\ plan = NoPlan
  /\ calls = <<>>
  /\ settled = <<>>
  /\ queries = <<>>
  /\ ranked = NoArg
  /\ outcome = Pending
  /\ rows = Pending
  /\ suspended = <<>>

searchVars ==
  <<input, table, pc, plan, calls, settled, queries, ranked, outcome, rows,
    suspended>>

isClosed ==
  /\ Len(returned) < MaxDbCalls
  /\ returned' = Append(returned, Returned("isClosed", closed))
  /\ UNCHANGED <<closed, closePromise, sql, searchVars>>

\* query(text, values): the promise it returns is rejected when closed is
\* set, and is otherwise the pending promise of sql.unsafe(text, values)
query ==
  /\ Len(returned) < MaxDbCalls
  /\ IF closed
       THEN /\ returned' = Append(returned,
                  Returned("query", Rejected(PoolClosedError("run query"))))
            /\ sql' = sql
     ELSE /\ returned' = Append(returned, Returned("query", Pending))
          /\ sql' = Sent("unsafe")
  /\ UNCHANGED <<closed, closePromise, searchVars>>

getClient ==
  /\ Len(returned) < MaxDbCalls
  /\ IF closed
       THEN /\ returned' = Append(returned,
                  Returned("getClient",
                           Rejected(PoolClosedError("get client"))))
            /\ sql' = sql
     ELSE /\ returned' = Append(returned, Returned("getClient", Pending))
          /\ sql' = Sent("reserve")
  /\ UNCHANGED <<closed, closePromise, searchVars>>

\* Mutant of close: closed is not set when the shutdown is started.
close_ClosedNotSet ==
  /\ Len(returned) < MaxDbCalls
  /\ IF closePromise # Null
       THEN /\ returned' = Append(returned, Returned("close", closePromise))
            /\ UNCHANGED <<closed, closePromise, sql>>
     ELSE /\ closed' = closed
          /\ closePromise' = Pending
          /\ sql' = [Sent("close") EXCEPT !.state = "closing",
                                           !.closes = @ + 1]
          /\ returned' = Append(returned, Returned("close", Pending))
  /\ UNCHANGED searchVars

\* close(): the first call sets closed, starts sql.close() and returns the
\* promise of it; a later call returns that same promise, as it is by then
close ==
  /\ Len(returned) < MaxDbCalls
  /\ IF closed
       THEN /\ returned' =
                 Append(returned,
                        Returned("close",
                                 IF closePromise = Null
                                   THEN Fulfilled(Undefined)
                                 ELSE closePromise))
            /\ UNCHANGED <<closed, closePromise, sql>>
     ELSE /\ closed' = TRUE
          /\ closePromise' = Pending
          /\ sql' = [Sent("close") EXCEPT !.state = "closing",
                                           !.closes = @ + 1]
          /\ returned' = Append(returned, Returned("close", Pending))
  /\ UNCHANGED searchVars

\* the promises close() returned, settled as closePromise is settled
CloseSettled(how) ==
  [j \in 1..Len(returned) |->
     IF returned[j].op = "close" THEN Returned("close", how)
     ELSE returned[j]]

\* sql.close() settles: the shutdown is done, or it failed and the error is
\* logged and thrown again (lines 97-102)
ShutdownSettles ==
  /\ sql.state = "closing"
  /\ \E how \in {Fulfilled(Undefined)}
                \cup {Rejected(e) : e \in DriverErrors} :
       /\ closePromise' = how
       /\ returned' = CloseSettled(how)
       /\ sql' = [sql EXCEPT !.state =
                    IF how.state = "fulfilled" THEN "ended" ELSE "failed"]
  /\ UNCHANGED <<closed, searchVars>>

\* the driver settles a promise of sql.unsafe() or sql.reserve()
DriverSettles ==
  /\ \E j \in 1..Len(returned) :
       /\ returned[j].op \in {"query", "getClient"}
       /\ returned[j].result = Pending
       /\ \E how \in {Fulfilled(<<>>)} \cup {Rejected(e) : e \in DriverErrors} :
            returned' = [returned EXCEPT ![j].result = how]
  /\ UNCHANGED <<closed, closePromise, sql, searchVars>>

PoolNext ==
  \/ isClosed
  \/ query
  \/ getClient
  \/ close
  \/ ShutdownSettles
  \/ DriverSettles

PoolSpec == PoolInit /\ [][PoolNext]_vars

(***************************************************************************)
(* The validator of the HTTP query (unnamed/part_005): safeParse of the    *)
(* query parameters, of which the model holds the cursor.                  *)
(***************************************************************************)
CURSOR_MAX_LENGTH == 256

\* length of the short cursors of the model, at most
MaxCursorLen == 4

ZodError(code) == [ok |-> FALSE, name |-> "ZodError", code |-> code]

\* the refinement of cursorSchema (lines 16-24)
CursorRefinement(v) ==
  IF v = Undefined THEN TRUE
  ELSE LET s == IF v.t = "string" THEN v.c ELSE <<>>
       IN /\ Len(s) > 0
          /\ Len(s) <= CURSOR_MAX_LENGTH
          /\ s = Trim(s)

\* Mutant of cursorSchema: the cursor is trimmed before it is checked, and
\* passed on trimmed.
cursorSchema_Trims(v) ==
  IF v.t \notin {"string", "undefined"} THEN ZodError("invalid_union")
  ELSE IF v = Undefined THEN Return(v)
  ELSE IF Len(Trim(v.c)) > 0 /\ Len(Trim(v.c)) <= CURSOR_MAX_LENGTH
    THEN Return(Txt(Trim(v.c)))
  ELSE ZodError("custom")

\* z.union([z.string(), z.undefined()]).refine(...): the value as parsed, or
\* the issue
cursorSchema(v) ==
  IF v.t \notin {"string", "undefined"} THEN ZodError("invalid_union")
  ELSE IF CursorRefinement(v) THEN Return(v)
  ELSE ZodError("custom")

\* n times the character ch
Repeated(ch, n) == [j \in 1..n |-> ch]

\* the texts of at most n characters out of letters and white space
RECURSIVE TextsUpTo(_)
TextsUpTo(n) ==
  IF n = 0 THEN {<<>>}
  ELSE TextsUpTo(n - 1)
       \cup {Append(c, ch) : c \in {d \in TextsUpTo(n - 1) : Len(d) = n - 1},
                             ch \in {"a", "Z", " ", "\t"}}

\* the cursors of the model: short texts, texts around the maximal length,
\* and values that are not strings
Cursors ==
  {Txt(c) : c \in TextsUpTo(MaxCursorLen)}
  \cup {Txt(Repeated("a", n)) :
          n \in (CURSOR_MAX_LENGTH - 1)..(CURSOR_MAX_LENGTH + 1)}
  \cup {Txt(<<" ">> \o Repeated("a", CURSOR_MAX_LENGTH - 1)),
        Txt(Repeated("a", CURSOR_MAX_LENGTH - 1) \o <<"\n">>),
        Txt(Repeated("a", 100) \o <<" ">> \o Repeated("a", 100))}
  \cup {Null, N(0), N(7), Num(NaN), Bool(TRUE), Bool(FALSE), Arr(<<>>),
        Arr(<<Txt(<<"a">>)>>), Obj([value |-> Txt(<<"a">>)])}

\* the query parameters: without a cursor, or with one
QueryParams ==
  {Obj([pageSize |-> N(24)])}
  \cup {Obj([pageSize |-> N(24), cursor |-> v]) : v \in Cursors \cup {Undefined}}

ValidatorInit ==
  /\ input \in QueryParams
  /\ pc = "start"
  /\ outcome = Pending
  /\ table = Table(0)
  /\ plan = NoPlan
  /\ calls = <<>>
  /\ settled = <<>>
  /\ queries = <<>>
  /\ ranked = NoArg
  /\ rows = Pending
  /\ suspended = <<>>
  /\ DbInit

\* SearchQuerySchema.safeParse(queryParams), for its cursor key
SafeParse ==
  /\ pc = "start"
  /\ outcome' = cursorSchema(Get(input.o, "cursor"))
  /\ pc' = "done"
  /\ UNCHANGED <<input, table, plan, calls, settled, queries, ranked, rows,
                 suspended, dbVars>>

ValidatorSpec == ValidatorInit /\ [][SafeParse]_vars

(***************************************************************************)
(* The pagination stage on its own: pagination(plan, ranked) is called on  *)
(* ranked lists of every length, more than once on the same list.          *)
(***************************************************************************)
MaxListLen == 5
MaxCalls == 2

\* a ranked list of n priced properties
RankedList(n) == [i \in 1..n |-> [id |-> ToString(i)]]

RankedLists ==
  {RankedList(n) : n \in 0..MaxListLen} \cup {RankedList(9 * 5)}

\* requests that differ in page and pageSize only
PaginationInputs ==
  {MkInput(<<Txt(Jan12), Txt(Jan14)>>, <<F(52, 3676), F(4, 9041)>>,
           <<N(2), Undefined>>, pp, Undefined) :
     pp \in PagePairs \cup {<<N(2), N(2)>>, <<N(3), N(2)>>}}

PaginationInit ==
  /\ input \in PaginationInputs
  /\ table = Table(0)
  /\ pc = "pagination"
  /\ plan = buildSearchPlan(input).value
  /\ ranked \in RankedLists
  /\ calls = <<>>
  /\ settled = <<>>
  /\ queries = <<>>
  /\ outcome = Pending
  /\ rows = Pending
  /\ suspended = <<>>
  /\ DbInit

\* Mutant of Paginate: the page is cut out of the list it was given
\* (splice instead of slice).
Paginate_Splices ==
  /\ pc = "pagination"
  /\ Len(calls) < MaxCalls
  /\ calls' = Append(calls, Call("pagination", plan, ranked))
  /\ settled' = Append(settled,
                       Settle("pagination", pagination(plan, ranked)))
  /\ ranked' = SelectSeq(ranked,
                  LAMBDA e : \A k \in 1..Len(pagination(plan, ranked).properties) :
                               pagination(plan, ranked).properties[k] # e)
  /\ UNCHANGED <<input, table, pc, plan, queries, outcome,
               rows, suspended, dbVars>>

\* one call pagination(plan, ranked), from the call to the resolved promise:
\* the function has no await, and slice() leaves its array as it is
Paginate ==
  /\ pc = "pagination"
  /\ Len(calls) < MaxCalls
  /\ calls' = Append(calls, Call("pagination", plan, ranked))
  /\ settled' = Append(settled,
                       Settle("pagination", pagination(plan, ranked)))
  /\ UNCHANGED <<input, table, pc, plan, queries, ranked, outcome,
               rows, suspended, dbVars>>

PaginationSpec == PaginationInit /\ [][Paginate]_vars

(***************************************************************************)
(* Properties                                                              *)
(***************************************************************************)
\* the order in which search() invokes the stages
StageOrder ==
  <<"candidate", "availability", "stayRules", "pricing", "ranking",
    "pagination">>

\* C1: the stages are invoked in the fixed order candidate, availability,
\* stayRules, pricing, ranking, pagination, none skipped or repeated; a stage
\* is invoked only once the previous one has completed, with the plan and
\* that stage's output; a run that ends with a result has invoked all six
\* exactly once.
C1_StagesInOrder ==
  /\ Len(calls) <= Len(StageOrder)
  /\ \A j \in 1..Len(calls) :
       /\ calls[j].stage = StageOrder[j]
       /\ calls[j].plan = plan
  /\ Len(settled) <= Len(calls)
  /\ Len(calls) <= Len(settled) + 1
  /\ \A j \in 1..Len(settled) : settled[j].stage = calls[j].stage
  /\ \A j \in 2..Len(calls) :
       /\ settled[j - 1].ok
       /\ calls[j].arg = settled[j - 1].value
  /\ pc = "done" =>
       /\ Len(calls) = Len(StageOrder)
       /\ Len(settled) = Len(StageOrder)
       /\ outcome = Fulfilled(settled[Len(settled)].value)

\* C1 witness: a finished run whose candidate stage found two or more rows.
C1_Witness ==
  /\ pc = "done"
  /\ Len(calls) = 6
  /\ Len(calls[2].arg) >= 2

\* C2: when buildSearchPlan fails for the input, search() invokes no stage
\* and sends no query to the store, and the request ends with exactly that
\* validation failure; checkIn equal to checkOut fails with
\* ARRIVAL_AFTER_DEPARTURE.
C2_NoStageOnInvalidPlan ==
  ~buildSearchPlan(input).ok =>
    /\ calls = <<>>
    /\ queries = <<>>
    /\ settled = <<>>
    /\ plan = NoPlan
    /\ pc \in {"start", "failed"}
    /\ pc = "start" => outcome = Pending
    /\ pc = "failed" =>
         /\ outcome = Rejected(buildSearchPlan(input))
         /\ outcome.error.name = "SearchPlanValidationError"
         /\ (/\ input.checkIn.t = "string"
             /\ input.checkOut.t = "string"
             /\ input.checkIn.c = Jan12
             /\ input.checkOut.c = Jan12)
            => outcome.error.code = "ARRIVAL_AFTER_DEPARTURE"

\* C2 witness: the request with checkIn = checkOut has ended in failure.
C2_Witness ==
  /\ pc = "failed"
  /\ input.checkIn.t = "string"
  /\ input.checkOut.t = "string"
  /\ input.checkIn.c = input.checkOut.c
  /\ outcome.state = "rejected"
  /\ outcome.error.code = "ARRIVAL_AFTER_DEPARTURE"
  /\ queries = <<>>

\* C3: when a stage fails, no later stage is invoked and search() ends
\* rejected with exactly that failure; a failed run never carries a
\* SearchResult, and a run that carries one had no failed stage.
C3_FailureAborts ==
  /\ \A j \in 1..Len(settled) :
       ~settled[j].ok =>
         /\ j = Len(settled)
         /\ Len(calls) = j
         /\ pc = "failed"
         /\ outcome = Rejected(settled[j].error)
  /\ pc = "failed" => outcome.state = "rejected"
  /\ outcome.state = "fulfilled" =>
       /\ pc = "done"
       /\ \A j \in 1..Len(settled) : settled[j].ok

\* C3 witness: the candidate stage failed on a refused connection.
C3_Witness ==
  /\ pc = "failed"
  /\ Len(settled) = 1
  /\ ~settled[1].ok
  /\ outcome.state = "rejected"
  /\ outcome.error.code = "ECONNREFUSED"

\* the column names interpolated into text right after the fixed text lit
ColsAfter(text, lit) ==
  {text[j + 1].s : j \in
     {j \in 1..(Len(text) - 1) : IsLit(text[j], lit) /\ text[j + 1].k = "col"}}

\* the string s occurs in text, as fixed text or as a column name
OccursIn(text, s) ==
  \E j \in 1..Len(text) : text[j].k \in {"lit", "col"} /\ text[j].s = s

\* C4: in every candidate query, the column of the capacity condition is one
\* of max_guests, maximum_guests, capacity and the column of the radius
\* condition and of the distance is one of location, geo; a capacityColumn
\* option outside the allow-list gives a query with no capacity condition, a
\* geoColumn option outside it gives the column location, and in neither
\* case does the supplied value occur in the text or among the values.
C4_ColumnsAllowListed ==
  \A j \in 1..Len(queries) :
    LET text == queries[j].text
        cap == OptionsGet(plan, "capacityColumn")
        geo == OptionsGet(plan, "geoColumn")
        capListed == cap.t = "string" /\ cap.s \in {"max_guests", "maximum_guests", "capacity"}
        geoListed == geo.t = "string" /\ geo.s \in {"location", "geo"}
    IN /\ \A t \in 1..Len(text) :
            text[t].k = "col" =>
              text[t].s \in {"max_guests", "maximum_guests", "capacity",
                             "location", "geo"}
       /\ ColsAfter(text, "p.") \subseteq
            {"max_guests", "maximum_guests", "capacity"}
       /\ ColsAfter(text, "ST_DWithin(p.") \subseteq {"location", "geo"}
       /\ ColsAfter(text, "ST_Distance(p.") \subseteq {"location", "geo"}
       /\ ~capListed =>
            /\ ColsAfter(text, "p.") = {}
            /\ ~HasLit(text, " >= ")
            /\ cap.t = "string" => ~OccursIn(text, cap.s)
       /\ ~geoListed =>
            /\ ColsAfter(text, "ST_DWithin(p.") = {"location"}
            /\ ColsAfter(text, "ST_Distance(p.") = {"location"}
            /\ geo.t = "string" => ~OccursIn(text, geo.s)
       /\ \A n \in 1..Len(queries[j].values) :
            queries[j].values[n].k \in {"fin", "nan", "inf", "maxsafe", "huge"}

\* C4 witness: a query was sent for a plan whose capacityColumn option is
\* "DROP TABLE properties".
C4_Witness ==
  /\ queries # <<>>
  /\ OptionsGet(plan, "capacityColumn").t = "string"
  /\ OptionsGet(plan, "capacityColumn").s = "DROP TABLE properties"
  /\ ColsAfter(queries[1].text, "p.") = {}

\* the value bound to the LIMIT placeholder of query q
LimitOf(q) == q.values[q.text[Len(q.text)].n]

PlanBuilt == plan # NoPlan

\* buildSearchPlan has thrown a SearchPlanValidationError with this code
PlanFailedWith(code) ==
  /\ pc = "failed"
  /\ plan = NoPlan
  /\ outcome.state = "rejected"
  /\ outcome.error.name = "SearchPlanValidationError"
  /\ outcome.error.code = code

\* text is the date string d, spaces aside
IsDateText(v, d) == v.t = "string" /\ Trim(v.c) = d

\* v is missing, not a string, empty or not a date
BadDate(v) ==
  \/ v.t # "string"
  \/ Trim(v.c) = <<>>
  \/ ~NewDate(Trim(v.c)).valid

\* the instant the date string v denotes
DateOf(v) == NewDate(Trim(v.c))

\* C6: a built plan has checkInDate < checkOutDate and nights >= 1, nights
\* being the number of whole 24-hour days from check-in to check-out; once
\* buildSearchPlan has run, parseable dates with checkIn >= checkOut have
\* failed with ARRIVAL_AFTER_DEPARTURE and dates in order but less than a
\* day apart with STAY_TOO_SHORT; a plan for 2026-01-12 to 2026-01-14 has
\* nights = 2.
C6_DatesAndNights ==
  /\ PlanBuilt =>
       /\ ~TimeGE(plan.checkInDate, plan.checkOutDate)
       /\ plan.nights >= 1
       /\ plan.nights * MS_PER_DAY
            <= TimeDiff(plan.checkOutDate, plan.checkInDate)
       /\ TimeDiff(plan.checkOutDate, plan.checkInDate)
            < (plan.nights + 1) * MS_PER_DAY
       /\ plan.checkInDate = DateOf(input.checkIn)
       /\ plan.checkOutDate = DateOf(input.checkOut)
       /\ (IsDateText(input.checkIn, Jan12) /\ IsDateText(input.checkOut, Jan14))
            => plan.nights = 2
  /\ (pc # "start" /\ ~BadDate(input.checkIn) /\ ~BadDate(input.checkOut)) =>
       /\ TimeGE(DateOf(input.checkIn), DateOf(input.checkOut))
            => PlanFailedWith("ARRIVAL_AFTER_DEPARTURE")
       /\ (/\ ~TimeGE(DateOf(input.checkIn), DateOf(input.checkOut))
           /\ TimeDiff(DateOf(input.checkOut), DateOf(input.checkIn))
                < MS_PER_DAY)
            => PlanFailedWith("STAY_TOO_SHORT")

\* C6 witness: a plan was built for a stay from noon of 12 January to
\* midnight of 14 January, a day and a half, with nights = 1.
C6_Witness ==
  /\ PlanBuilt
  /\ IsDateText(input.checkIn, Jan12 \o Noon)
  /\ IsDateText(input.checkOut, Jan14)
  /\ plan.nights = 1

\* n is a whole number between lo and hi
IsIntegerIn(n, lo, hi) == n.k = "fin" /\ n.f = 0 /\ lo <= n.i /\ n.i <= hi

\* v is missing, or Number(v) is not finite
MissingOrNonFinite(v) == IsNullish(v) \/ ~NumberIsFinite(ToNumber(v))

\* C7: in a built plan page is an integer >= 1 (at most the largest safe
\* integer) and pageSize an integer in 1..100; a missing or non-finite page
\* gives 1 and a missing or non-finite pageSize gives 20; other values are
\* floored and clamped (pageSize -5 gives 1, 99999 gives 100, 20.9 gives 20;
\* page 2.7 gives 2, -5 gives 1, a page above the largest safe integer gives
\* the largest safe integer); and plan building succeeds exactly when it
\* does for the same input without page and pageSize.
C7_PageNormalized ==
  /\ PlanBuilt =>
       /\ \/ plan.page = MAX_SAFE_INTEGER
          \/ plan.page.k = "fin" /\ plan.page.f = 0 /\ plan.page.i >= 1
       /\ IsIntegerIn(plan.pageSize, 1, 100)
       /\ MissingOrNonFinite(input.page) => plan.page = Int2Num(1)
       /\ MissingOrNonFinite(input.pageSize) => plan.pageSize = Int2Num(20)
       /\ input.pageSize = N(-5) => plan.pageSize = Int2Num(1)
       /\ input.pageSize = N(99999) => plan.pageSize = Int2Num(100)
       /\ input.pageSize = F(20, 9000) => plan.pageSize = Int2Num(20)
       /\ input.page = F(2, 7000) => plan.page = Int2Num(2)
       /\ input.page = N(-5) => plan.page = Int2Num(1)
       /\ input.page = Num(Huge) => plan.page = MAX_SAFE_INTEGER
  /\ pc # "start" =>
       (PlanBuilt <=>
          buildSearchPlan([input EXCEPT !.page = Undefined,
                                        !.pageSize = Undefined]).ok)

\* C7 witness: a plan was built from page 2.7 and pageSize 99999, with page 2
\* and pageSize 100.
C7_Witness ==
  /\ PlanBuilt
  /\ input.page = F(2, 7000)
  /\ input.pageSize = N(99999)
  /\ plan.page = Int2Num(2)
  /\ plan.pageSize = Int2Num(100)

\* lo <= n <= hi for a finite n
IsWithin(n, lo, hi) ==
  n.k = "fin" /\ NumLE(Int2Num(lo), n) /\ NumLE(n, Int2Num(hi))

\* filters.radiusKm, undefined when filters is not an object
RadiusKmGiven ==
  IF input.filters.t = "object" THEN Get(input.filters.o, "radiusKm")
  ELSE Undefined

\* filters.radiusKm, or the legacy filters.radius when radiusKm is null or
\* undefined
RadiusGiven ==
  IF input.filters.t # "object" THEN Undefined
  ELSE IF IsNullish(Get(input.filters.o, "radiusKm"))
    THEN Get(input.filters.o, "radius")
  ELSE Get(input.filters.o, "radiusKm")

\* what the claim says of the radius that is read as v
RadiusRule(v) ==
  /\ PlanBuilt =>
       /\ IsWithin(plan.radius, 1, 500)
       /\ MissingOrNonFinite(v) => plan.radius = Int2Num(10)
       /\ (~MissingOrNonFinite(v) /\ NumLT(ToNumber(v), Int2Num(1)))
            => plan.radius = Int2Num(1)
       /\ (~MissingOrNonFinite(v) /\ NumGT(ToNumber(v), Int2Num(500)))
            => plan.radius = Int2Num(500)
  /\ pc # "start" =>
       (PlanBuilt <=> buildSearchPlan([input EXCEPT !.filters = Undefined]).ok)

OutOfRange(v, lo, hi) ==
  \/ ~NumberIsFinite(ToNumber(v))
  \/ NumLT(ToNumber(v), Int2Num(lo))
  \/ NumGT(ToNumber(v), Int2Num(hi))

\* Number(v) is not finite or is negative
BadCount(v) ==
  ~NumberIsFinite(ToNumber(v)) \/ NumLT(ToNumber(v), Int2Num(0))

\* input.children ?? 0
ChildrenGiven ==
  IF IsNullish(input.children) THEN N(0) ELSE input.children

\* the dates of the input are parseable and at least one day apart, in order
GoodStay ==
  /\ ~BadDate(input.checkIn)
  /\ ~BadDate(input.checkOut)
  /\ ~TimeGE(DateOf(input.checkIn), DateOf(input.checkOut))
  /\ Nights(DateOf(input.checkIn), DateOf(input.checkOut)) >= 1

\* the guest counts of the input are finite, not negative and not both 0
GoodParty ==
  /\ ~BadCount(input.adults)
  /\ ~BadCount(ChildrenGiven)
  /\ NumAdd(ToNumber(input.adults), ToNumber(ChildrenGiven)) # Int2Num(0)

\* the position of the input is finite and in range
GoodPosition ==
  /\ ~OutOfRange(input.latitude, -90, 90)
  /\ ~OutOfRange(input.longitude, -180, 180)

\* C9: once buildSearchPlan has run, it has failed if and only if a date is
\* missing, empty or unparseable, or check-in >= check-out, or nights < 1,
\* or latitude or longitude (as numbers) is non-finite or out of range, or
\* adults or children (as numbers, children defaulting to 0) is non-finite
\* or negative, or their sum is 0; the failure is a
\* SearchPlanValidationError with one of the eight codes; in every other
\* case a plan is returned.
C9_FailureConditionsExhaustive ==
  pc # "start" =>
    /\ ~PlanBuilt <=> ~(GoodStay /\ GoodParty /\ GoodPosition)
    /\ ~PlanBuilt =>
         /\ pc = "failed"
         /\ outcome.state = "rejected"
         /\ outcome.error.name = "SearchPlanValidationError"
         /\ outcome.error.code \in SearchPlanErrorCode
         /\ SearchPlanErrorCode =
              {"INVALID_CHECK_IN", "INVALID_CHECK_OUT", "INVALID_LATITUDE",
               "INVALID_LONGITUDE", "ARRIVAL_AFTER_DEPARTURE",
               "STAY_TOO_SHORT", "NO_GUESTS", "INVALID_GUEST_COUNTS"}
    /\ PlanBuilt =>
         ~(outcome.state = "rejected"
             /\ outcome.error.name = "SearchPlanValidationError")

\* C9 witness: a request whose only fault is a party of zero guests has
\* failed with NO_GUESTS.
C9_Witness ==
  /\ GoodStay
  /\ GoodPosition
  /\ ~BadCount(input.adults)
  /\ ~BadCount(ChildrenGiven)
  /\ PlanFailedWith("NO_GUESTS")

\* C10 as stated: once buildSearchPlan has run, a latitude that is not
\* finite or outside [-90,90] has failed with INVALID_LATITUDE and a
\* longitude that is not finite or outside [-180,180] with
\* INVALID_LONGITUDE; a built plan has its position in range.
C10_AsStated ==
  /\ (pc # "start" /\ OutOfRange(input.latitude, -90, 90))
       => PlanFailedWith("INVALID_LATITUDE")
  /\ (pc # "start" /\ OutOfRange(input.longitude, -180, 180))
       => PlanFailedWith("INVALID_LONGITUDE")
  /\ PlanBuilt =>
       /\ IsWithin(plan.geo.lat, -90, 90)
       /\ IsWithin(plan.geo.lon, -180, 180)

\* C10: once buildSearchPlan has run on an input whose dates and guest
\* counts are valid, a latitude that is not finite or outside [-90,90] has
\* failed with INVALID_LATITUDE, and with a valid latitude a longitude that
\* is not finite or outside [-180,180] has failed with INVALID_LONGITUDE;
\* with invalid dates or guest counts the failure carries their code
\* instead; in every case an invalid position fails plan building, and a
\* built plan has its position in range.
C10_PositionChecked ==
  /\ (pc # "start" /\ GoodStay /\ GoodParty) =>
       /\ OutOfRange(input.latitude, -90, 90)
            => PlanFailedWith("INVALID_LATITUDE")
       /\ (/\ ~OutOfRange(input.latitude, -90, 90)
           /\ OutOfRange(input.longitude, -180, 180))
            => PlanFailedWith("INVALID_LONGITUDE")
  /\ (pc # "start" /\ ~GoodPosition) =>
       /\ pc = "failed"
       /\ ~PlanBuilt
       /\ outcome.error.name = "SearchPlanValidationError"
       /\ ~(GoodStay /\ GoodParty) =>
            outcome.error.code \notin {"INVALID_LATITUDE", "INVALID_LONGITUDE"}
  /\ PlanBuilt =>
       /\ IsWithin(plan.geo.lat, -90, 90)
       /\ IsWithin(plan.geo.lon, -180, 180)
       /\ plan.geo.lat = ToNumber(input.latitude)
       /\ plan.geo.lon = ToNumber(input.longitude)

\* C10 witness: a request with valid dates and guest counts and latitude 132
\* has failed with INVALID_LATITUDE.
C10_Witness ==
  /\ GoodStay
  /\ GoodParty
  /\ input.latitude = N(132)
  /\ PlanFailedWith("INVALID_LATITUDE")

\* Number(adults) + Number(children ?? 0)
PartySize == NumAdd(ToNumber(input.adults), ToNumber(ChildrenGiven))

\* what every built plan says of the party
PartyInPlan ==
  PlanBuilt =>
    /\ plan.guests = PartySize
    /\ NumGT(plan.guests, Int2Num(0))
    /\ plan.hasChildren <=> NumGT(ToNumber(ChildrenGiven), Int2Num(0))

\* C11 as stated: a built plan has guests = adults + children (children 0
\* when absent), guests > 0 and hasChildren exactly when children > 0; once
\* buildSearchPlan has run, a non-finite or negative adults or children has
\* failed with INVALID_GUEST_COUNTS and adults + children = 0 with
\* NO_GUESTS.
C11_AsStated ==
  /\ PartyInPlan
  /\ (pc # "start" /\ (BadCount(input.adults) \/ BadCount(ChildrenGiven)))
       => PlanFailedWith("INVALID_GUEST_COUNTS")
  /\ (pc # "start" /\ PartySize = Int2Num(0)) => PlanFailedWith("NO_GUESTS")

\* C11: a built plan has guests = adults + children (children 0 when
\* absent), guests > 0 and hasChildren exactly when children > 0; once
\* buildSearchPlan has run on an input whose dates are valid, a non-finite
\* or negative adults or children has failed with INVALID_GUEST_COUNTS, and
\* finite non-negative counts whose sum is 0 with NO_GUESTS; with invalid
\* dates the failure carries the date's code instead; in every case such
\* counts fail plan building, and no other counts fail with either code.
C11_GuestsChecked ==
  /\ PartyInPlan
  /\ (pc # "start" /\ GoodStay) =>
       /\ (BadCount(input.adults) \/ BadCount(ChildrenGiven))
            => PlanFailedWith("INVALID_GUEST_COUNTS")
       /\ (/\ ~BadCount(input.adults)
           /\ ~BadCount(ChildrenGiven)
           /\ PartySize = Int2Num(0))
            => PlanFailedWith("NO_GUESTS")
  /\ (pc # "start" /\ ~GoodParty) =>
       /\ pc = "failed"
       /\ ~PlanBuilt
       /\ ~GoodStay =>
            outcome.error.code \notin {"INVALID_GUEST_COUNTS", "NO_GUESTS"}
  /\ GoodParty =>
       /\ ~PlanFailedWith("INVALID_GUEST_COUNTS")
       /\ ~PlanFailedWith("NO_GUESTS")

\* C11 witness: a plan was built for no adults and two children, with
\* guests = 2 and hasChildren true.
C11_Witness ==
  /\ PlanBuilt
  /\ input.adults = N(0)
  /\ input.children = N(2)
  /\ plan.guests = Int2Num(2)
  /\ plan.hasChildren

\* the page of list that starts after skip elements and has at most size
PageIs(page, list, skip, size) ==
  /\ Len(page) = (IF skip >= Len(list) THEN 0
                  ELSE IF skip + size <= Len(list) THEN size
                  ELSE Len(list) - skip)
  /\ \A k \in 1..Len(page) : page[k] = list[skip + k]

\* n = max(1, ceil(total / size))
IsTotalPages(n, total, size) ==
  /\ n >= 1
  /\ n * size >= total
  /\ n = 1 \/ (n - 1) * size < total

\* C12: every call of the pagination stage returns total = the length of
\* the list it was given, totalPages = max(1, ceil(total / pageSize)), the
\* plan's page and pageSize, and as properties the elements of the list at
\* indices [(page-1)*pageSize, page*pageSize) in their order; 45 properties
\* with page 3 and pageSize 20 give 5 properties, total 45, totalPages 3.
C12_PageOfRankedList ==
  \A j \in 1..Len(settled) :
    settled[j].stage = "pagination" =>
      /\ settled[j].ok
      /\ settled[j].value.pagination.total = Len(calls[j].arg)
      /\ settled[j].value.pagination.page = calls[j].plan.page
      /\ settled[j].value.pagination.pageSize = calls[j].plan.pageSize
      /\ settled[j].value.pagination.totalPages.k = "fin"
      /\ settled[j].value.pagination.totalPages.f = 0
      /\ IsTotalPages(settled[j].value.pagination.totalPages.i,
                      Len(calls[j].arg), calls[j].plan.pageSize.i)
      /\ IF calls[j].plan.page.k = "fin"
           THEN PageIs(settled[j].value.properties, calls[j].arg,
                       (calls[j].plan.page.i - 1) * calls[j].plan.pageSize.i,
                       calls[j].plan.pageSize.i)
         ELSE settled[j].value.properties = <<>>
      /\ (/\ Len(calls[j].arg) = 45
          /\ calls[j].plan.page = Int2Num(3)
          /\ calls[j].plan.pageSize = Int2Num(20))
         => /\ Len(settled[j].value.properties) = 5
            /\ settled[j].value.properties[1] = calls[j].arg[41]
            /\ settled[j].value.pagination.totalPages = Int2Num(3)

\* C12 witness: pagination returned the third page of 45 properties by 20.
C12_Witness ==
  /\ Len(settled) >= 1
  /\ Len(ranked) = 45
  /\ plan.page = Int2Num(3)
  /\ plan.pageSize = Int2Num(20)
  /\ Len(settled[1].value.properties) = 5
  /\ settled[1].value.pagination.total = 45

\* page > totalPages
PastTheEnd(p, result) ==
  \/ p.page.k # "fin"
  \/ p.page.i > result.pagination.totalPages.i

\* C13: every call of the pagination stage, on a built plan and any list,
\* the empty one included, returns a result; when page is greater than
\* totalPages the properties are empty while total is the length of the
\* list and totalPages is max(1, ceil(total / pageSize)).
C13_PaginationTotal ==
  /\ Len(settled) = Len(calls)
  /\ \A j \in 1..Len(settled) :
       settled[j].stage = "pagination" =>
         /\ settled[j].ok
         /\ PastTheEnd(calls[j].plan, settled[j].value) =>
              /\ settled[j].value.properties = <<>>
              /\ settled[j].value.pagination.total = Len(calls[j].arg)
              /\ IsTotalPages(settled[j].value.pagination.totalPages.i,
                              Len(calls[j].arg), calls[j].plan.pageSize.i)

\* C13 witness: page 3 was asked of a list that fills one page, and an
\* empty page came back with the list's total.
C13_Witness ==
  /\ Len(settled) >= 1
  /\ Len(ranked) >= 1
  /\ plan.page = Int2Num(3)
  /\ settled[1].value.pagination.totalPages = Int2Num(1)
  /\ settled[1].value.properties = <<>>
  /\ settled[1].value.pagination.total = Len(ranked)

\* C14: the calls of the pagination stage with the same list and plan
\* return identical results, and the list is afterwards what it was when
\* first handed over.
C14_PaginationRepeatable ==
  \A j \in 1..Len(settled) :
    settled[j].stage = "pagination" =>
      /\ calls[j].arg = ranked
      /\ \A k \in 1..Len(settled) :
           (calls[k].stage = "pagination" /\ calls[k].plan = calls[j].plan)
             => /\ calls[k].arg = calls[j].arg
                /\ settled[k] = settled[j]

\* C14 witness: pagination was called twice on a list of three with page 2
\* of size 2, and both calls returned the third element.
C14_Witness ==
  /\ Len(settled) >= 2
  /\ Len(ranked) = 3
  /\ plan.page = Int2Num(2)
  /\ plan.pageSize = Int2Num(2)
  /\ settled[1].value.properties = <<ranked[3]>>
  /\ settled[2].value.properties = <<ranked[3]>>

\* the id, in the table, of the row candidate c was mapped from
RowIdOf(c) ==
  CHOOSE i \in {table[n].id : n \in 1..Len(table)} : ToString(i) = c.id

\* C15: whatever order the store holds the rows in, a candidate resolution
\* returns the candidates that the plan's query selects from the table, a
\* list fixed by the plan and the table alone, in ascending order of
\* property id: the text orders by p.id right before LIMIT, and the
\* candidates are the rows mapped one by one in row order.
C15_DeterministicOrder ==
  /\ \A q \in 1..Len(queries) :
       /\ queries[q] = buildCandidateSql(plan)
       /\ IsLit(queries[q].text[Len(queries[q].text) - 2], "ORDER BY p.id")
       /\ IsLit(queries[q].text[Len(queries[q].text) - 1], "LIMIT ")
  /\ \A j \in 1..Len(settled) :
       (settled[j].stage = "candidate" /\ settled[j].ok) =>
         /\ settled[j].value =
              MapRows(ExecQuery(buildCandidateSql(plan), table))
         /\ \A a, b \in 1..Len(settled[j].value) :
              a < b => RowIdOf(settled[j].value[a])
                         < RowIdOf(settled[j].value[b])

\* C15 witness: two or more candidates came back in ascending id order from
\* a table that holds them in descending id order.
C15_Witness ==
  /\ Len(settled) >= 1
  /\ settled[1].ok
  /\ Len(settled[1].value) >= 2
  /\ Len(table) >= 2
  /\ table[1].id > table[2].id
  /\ RowIdOf(settled[1].value[1]) < RowIdOf(settled[1].value[2])

\* C16 as stated: once the plan is built, a write of the caller to the
\* input it holds, to a field or to its filter map, changes nothing of the
\* plan, its options included.
C16_AsStated ==
  [][(plan # NoPlan /\ input' # input) => plan' = plan]_vars

\* the part of C16 that holds: a write of the caller to its input leaves
\* plan.options and every field of the plan other than plan.input as built
C16_OptionsAreACopy ==
  [][(plan # NoPlan /\ input' # input) =>
       /\ plan'.options = plan.options
       /\ [plan' EXCEPT !.input = plan.input] = plan
       /\ plan'.input = input']_vars

\* C16 witness: the caller wrote capacityColumn into its filter map after
\* the plan was built, and plan.options does not have that value.
C16_Witness ==
  /\ plan # NoPlan
  /\ input.filters.t = "object"
  /\ plan.options.t = "object"
  /\ Get(input.filters.o, "capacityColumn") = Str("capacity")
  /\ Get(plan.options.o, "capacityColumn") # Str("capacity")
  /\ plan.input = input

\* C17: the plan is set once, by the step of search() that builds it from
\* the input, and no later step changes any of its fields; every stage is
\* invoked with that same plan.
C17_PlanFrozen ==
  /\ [](\A j \in 1..Len(calls) : calls[j].plan = plan)
  /\ [][/\ plan # NoPlan => plan' = plan
        /\ plan' # plan =>
             /\ pc = "start"
             /\ plan' = buildSearchPlan(input).value
             /\ calls = <<>>]_vars

\* C17 witness: a run has reached its result with a plan that carries
\* options, and all six stages were invoked with it.
C17_Witness ==
  /\ pc = "done"
  /\ plan.options.t = "object"
  /\ Len(calls) = 6
  /\ \A j \in 1..6 : calls[j].plan.options = plan.options
  /\ plan.geo = calls[1].plan.geo

\* the fixed text of the candidate query
QueryFragments ==
  {"WITH params AS ( SELECT ST_SetSRID(ST_MakePoint(", ", ",
   "), 4326)::geography AS p )", "SELECT ", "p.id", "p.name", "p.city",
   "p.country", "p.max_guests", "p.maximum_guests AS max_guests",
   "p.capacity AS max_guests", "ST_Distance(p.",
   "::geography, params.p) AS distance_meters", "FROM properties p",
   ", params", "WHERE ", "p.", " >= ", " AND ", "ST_DWithin(p.",
   "::geography, params.p, ", ")", "TRUE", "ORDER BY p.id", "LIMIT "}

\* the placeholder numbers that occur in text
Placeholders(text) ==
  {text[j].n : j \in {j \in 1..Len(text) : text[j].k = "param"}}

\* the only placeholder after pattern, and its value, are n and v
BoundAt(q, pattern, n, v) ==
  /\ ParamsAfter(q.text, pattern) = {n}
  /\ q.values[n] = v

\* m = 1000 * km
IsMetres(m, km) ==
  IF km.k = "fin"
    THEN /\ m.k = "fin"
         /\ m.i = 1000 * km.i + (1000 * km.f) \div Scale
         /\ m.f = (1000 * km.f) % Scale
  ELSE m = km

\* the plan selects a capacity column
CapacitySelected ==
  /\ OptionsGet(plan, "capacityColumn").t = "string"
  /\ OptionsGet(plan, "capacityColumn").s
       \in {"max_guests", "maximum_guests", "capacity"}

\* C18: in every candidate query the text is made of the fixed fragments,
\* allow-listed column names and placeholders only; the placeholders are
\* exactly $1..$n for the n bound values; the capacity threshold, when a
\* capacity column is selected, is $1 = plan.guests; then come longitude,
\* latitude and radius in metres, and the limit is $n.
C18_ValuesAreBound ==
  \A j \in 1..Len(queries) :
    LET q == queries[j]
        first == IF CapacitySelected THEN 2 ELSE 1
    IN /\ \A t \in 1..Len(q.text) :
            \/ q.text[t].k = "lit" /\ q.text[t].s \in QueryFragments
            \/ q.text[t].k = "col"
            \/ q.text[t].k = "param"
       /\ Placeholders(q.text) = 1..Len(q.values)
       /\ Len(q.values) = first + 3
       /\ CapacitySelected =>
            BoundAt(q, <<"p.", "?", " >= ">>, 1, plan.guests)
       /\ ~CapacitySelected => ParamsAfter(q.text, <<"p.", "?", " >= ">>) = {}
       /\ BoundAt(q, <<"WITH params AS ( SELECT ST_SetSRID(ST_MakePoint(">>,
                  first, plan.geo.lon)
       /\ q.text[3] = Lit(", ")
       /\ q.text[4] = Param(first + 1)
       /\ q.values[first + 1] = plan.geo.lat
       /\ ParamsAfter(q.text,
            <<"ST_DWithin(p.", "?", "::geography, params.p, ">>)
            = {first + 2}
       /\ IsMetres(q.values[first + 2], plan.radius)
       /\ BoundAt(q, <<"LIMIT ">>, Len(q.values), resolveCandidateLimit(plan))
       /\ q.text[Len(q.text)] = Param(Len(q.values))

\* C18 witness: a query with a capacity condition binds five values, the
\* fractional guest count 1.5 first and the limit 3000 last.
C18_Witness ==
  /\ queries # <<>>
  /\ CapacitySelected
  /\ Len(queries[1].values) = 5
  /\ queries[1].values[1] = Fin(1, 5000)
  /\ queries[1].values[5] = Int2Num(3000)

\* the number of tokens of text that are the fixed text s
CountLit(text, s) == Cardinality({j \in 1..Len(text) : IsLit(text[j], s)})

\* C20: the candidate query has the condition '<column> >= $n', with the
\* selected column and plan.guests, exactly when options.capacityColumn is
\* allow-listed; it always has the radius condition on the distance to the
\* point (plan.geo.lon, plan.geo.lat) with plan.radius * 1000 metres, and
\* projects that distance; its WHERE clause is the conditions that are
\* present, joined by AND.
C20_QueryShape ==
  \A j \in 1..Len(queries) :
    LET q == queries[j]
        conds == CountLit(q.text, " >= ") + CountLit(q.text, "ST_DWithin(p.")
    IN /\ CapacitySelected <=> HasLit(q.text, " >= ")
       /\ CapacitySelected =>
            /\ ColsAfter(q.text, "p.")
                 = {OptionsGet(plan, "capacityColumn").s}
            /\ \A n \in ParamsAfter(q.text, <<"p.", "?", " >= ">>) :
                 q.values[n] = plan.guests
            /\ CountLit(q.text, " >= ") = 1
       /\ CountLit(q.text, "ST_DWithin(p.") = 1
       /\ CountLit(q.text, "ST_Distance(p.") = 1
       /\ CountLit(q.text, "::geography, params.p) AS distance_meters") = 1
       /\ CountLit(q.text, ", params") = 1
       /\ \A n \in ParamsAfter(q.text,
                     <<"ST_DWithin(p.", "?", "::geography, params.p, ">>) :
            /\ IsMetres(q.values[n], plan.radius)
            /\ q.values[n - 2] = plan.geo.lon
            /\ q.values[n - 1] = plan.geo.lat
            /\ q.text[2] = Param(n - 2)
            /\ q.text[4] = Param(n - 1)
       /\ CountLit(q.text, "WHERE ") = 1
       /\ CountLit(q.text, " AND ") = conds - 1
       /\ CountLit(q.text, "TRUE") = 0
       /\ \A t \in 1..Len(q.text) :
            IsLit(q.text[t], "WHERE ") =>
              IF CapacitySelected
                THEN /\ IsLit(q.text[t + 1], "p.")
                     /\ IsLit(q.text[t + 5], " AND ")
                     /\ IsLit(q.text[t + 6], "ST_DWithin(p.")
                     /\ IsLit(q.text[t + 11], "ORDER BY p.id")
              ELSE /\ IsLit(q.text[t + 1], "ST_DWithin(p.")
                   /\ IsLit(q.text[t + 6], "ORDER BY p.id")

\* C20 witness: a query with both conditions, on the columns capacity and
\* geo, with a radius of 200 km bound as 200000 metres.
C20_Witness ==
  /\ queries # <<>>
  /\ ColsAfter(queries[1].text, "p.") = {"capacity"}
  /\ ColsAfter(queries[1].text, "ST_DWithin(p.") = {"geo"}
  /\ CountLit(queries[1].text, " AND ") = 1
  /\ plan.radius = Int2Num(200)
  /\ queries[1].values[4] = Int2Num(200000)

\* every candidate resolution has handed exactly one query to query(), and
\* a failed one was not followed by another
OneQueryPerResolution ==
  /\ Len(queries) = Cardinality({j \in 1..Len(calls) :
                                   calls[j].stage = "candidate"})
  /\ Len(queries) <= 1
  /\ \A j \in 1..Len(settled) :
       (settled[j].stage = "candidate" /\ ~settled[j].ok) =>
         /\ Len(queries) = 1
         /\ Len(calls) = j

\* C19 as stated: each candidate resolution issues exactly one query; when
\* the store is unavailable or the query fails, the resolution fails with a
\* CandidateStoreUnavailable failure, and no second query is made.
C19_AsStated ==
  /\ OneQueryPerResolution
  /\ \A j \in 1..Len(settled) :
       (settled[j].stage = "candidate" /\ ~settled[j].ok) =>
         settled[j].error.name = "CandidateStoreUnavailable"

\* the part of C19 that holds: one query per resolution, no second attempt,
\* and a failure of the store is the failure of the resolution and of
\* search(), unchanged
C19_StoreErrorPropagates ==
  /\ OneQueryPerResolution
  /\ \A j \in 1..Len(settled) :
       (settled[j].stage = "candidate" /\ ~settled[j].ok) =>
         /\ rows = Pending => settled[j].error \in StoreErrors
         /\ outcome = Rejected(settled[j].error)

\* C19 witness: the store refused the connection, and the one resolution
\* failed after its one query.
C19_Witness ==
  /\ Len(queries) = 1
  /\ Len(settled) = 1
  /\ settled[1].stage = "candidate"
  /\ ~settled[1].ok
  /\ settled[1].error.code = "ECONNREFUSED"
  /\ pc = "failed"

\* C21: row mapping is 1:1 and fail-fast.  When every row the store
\* returned can be mapped, the candidate stage resolves with exactly one
\* candidate per row, in row order, and that list is what the next stage
\* receives; when the mapping of any one row fails, the candidate stage and
\* the search are rejected with that error, and no candidate list, partial
\* or not, is resolved or handed to any stage.
C21_RowMapping ==
  rows # Pending =>
    IF \E j \in 1..Len(rows.value) : IsBadRow(rows.value[j])
      THEN /\ pc = "failed"
           /\ Len(settled) = 1
           /\ ~settled[1].ok
           /\ settled[1].error.name = "TypeError"
           /\ outcome = Rejected(settled[1].error)
           /\ Len(calls) = 1
    ELSE /\ settled[1].stage = "candidate"
         /\ settled[1].ok
         /\ Len(settled[1].value) = Len(rows.value)
         /\ \A j \in 1..Len(rows.value) :
              /\ settled[1].value[j].id = ToString(rows.value[j].id)
              /\ settled[1].value[j].name =
                   (IF rows.value[j].name = Null THEN Str("") ELSE rows.value[j].name)
         /\ calls[2] = Call("availability", plan, settled[1].value)

\* the store returned several rows, one of which could not be mapped
C21_Witness ==
  /\ rows # Pending
  /\ Len(rows.value) >= 2
  /\ \E j \in 1..Len(rows.value) : IsBadRow(rows.value[j])
  /\ \E j \in 1..Len(rows.value) : ~IsBadRow(rows.value[j])
  /\ pc = "failed"

\* the results search(in) can have when it runs alone against the rows tbl:
\* the validation error, or the rejection of the query, or the error of
\* mapping a row, or the page of the pipeline's stages
ResultsAlone(in, tbl, built) ==
  IF ~built.ok THEN {Rejected(built)}
  ELSE {Rejected(e) : e \in StoreErrors}
       \cup (IF ExecQuery(buildCandidateSql(built.value), tbl) = <<>> THEN {}
             ELSE {Rejected(RowTypeError)})
       \cup {Fulfilled(
               pagination(built.value,
                 ranking(built.value,
                   pricing(built.value,
                     stayRules(built.value,
                       availability(built.value,
                         MapRows(ExecQuery(buildCandidateSql(built.value),
                                           tbl))))))))}

\* the invocation c has its own plan, sent its own query, got the rows its
\* query selects, and ended as it would have ended alone
RunsAsAlone(c, built) ==
  /\ c.plan # NoPlan => built.ok /\ c.plan = built.value
  /\ \A j \in 1..Len(c.calls) : c.calls[j].plan = built.value
  /\ \A j \in 1..Len(c.queries) :
       c.queries[j] = buildCandidateSql(built.value)
  /\ Len(c.queries) <= 1
  /\ (c.rows # Pending
        /\ \A j \in 1..Len(c.rows.value) : ~IsBadRow(c.rows.value[j]))
       => c.rows.value = ExecQuery(buildCandidateSql(built.value), table)
  /\ c.outcome # Pending
       => c.outcome \in ResultsAlone(c.input, table, built)

\* C22: concurrent invocations of search() are independent.  In every
\* interleaving of two invocations at their awaits, each invocation works
\* with the plan built from its own input in all its stage calls and in its
\* query, and its result is a result it can have when run alone against the
\* same rows; nothing but the data store is shared.
C22_InvocationsIndependent ==
  /\ RunsAsAlone(Running, buildSearchPlan(input))
  /\ \A k \in 1..Len(suspended) :
       RunsAsAlone(suspended[k], buildSearchPlan(suspended[k].input))

\* two invocations with different plans are both in the middle of the
\* pipeline, and the store returned rows to each
C22_Witness ==
  /\ Len(suspended) = 1
  /\ pc = "pricing"
  /\ suspended[1].pc = "stayRules"
  /\ plan # suspended[1].plan
  /\ Len(settled[1].value) >= 1
  /\ Len(suspended[1].settled[1].value) >= 1

\* the calls of close(), by their place in the order of calls
CloseCalls == {j \in 1..Len(returned) : returned[j].op = "close"}

\* the calls made after close() was first called
AfterClose == {j \in 1..Len(returned) : \E i \in CloseCalls : i < j}

\* C23 as stated: close() may be called any number of times; the pool's
\* shutdown is started exactly once, and every later call waits for that
\* same shutdown and resolves without error.
C23_AsStated ==
  /\ sql.closes <= 1
  /\ CloseCalls # {} => sql.closes = 1
  /\ \A j \in CloseCalls : returned[j].result = closePromise
  /\ \A j \in CloseCalls \cap AfterClose :
       returned[j].result.state # "rejected"

\* what holds of close(): the shutdown is started exactly once, by the
\* first call, and every call returns the settlement of that one shutdown
C23_ShutdownStartedOnce ==
  /\ sql.closes <= 1
  /\ CloseCalls # {} => sql.closes = 1
  /\ Cardinality({k \in 1..Len(sql.sent) : sql.sent[k] = "close"})
       = sql.closes
  /\ \A j \in CloseCalls : returned[j].result = closePromise

\* close() was called again after the shutdown had failed, and the promise
\* it returned is rejected
C23_Witness ==
  /\ sql.state = "failed"
  /\ \E j \in CloseCalls \cap AfterClose :
       returned[j].result.state = "rejected"

\* C24: once close() has been called, also while the shutdown is still in
\* progress, closed is set and every later isClosed() returns true, and
\* every later query() or getClient() is rejected with the module's "pool
\* is closed" error; what was sent to the pool are only the queries and
\* reservations made before close(), and the one shutdown.
C24_ClosedForGood ==
  /\ CloseCalls # {} => closed
  /\ \A j \in AfterClose :
       /\ returned[j].op = "isClosed" => returned[j].result = TRUE
       /\ returned[j].op = "query" =>
            returned[j].result = Rejected(PoolClosedError("run query"))
       /\ returned[j].op = "getClient" =>
            returned[j].result = Rejected(PoolClosedError("get client"))
  /\ Cardinality({k \in 1..Len(sql.sent) :
                    sql.sent[k] \in {"unsafe", "reserve"}})
       = Cardinality({j \in 1..Len(returned) \ AfterClose :
                        returned[j].op \in {"query", "getClient"}})
  /\ \A k \in 1..Len(sql.sent) :
       sql.sent[k] = "close" =>
         \A m \in (k + 1)..Len(sql.sent) : sql.sent[m] = "close"

\* a query was sent, close() was called, and while the shutdown is still
\* in progress query() and getClient() were called
C24_Witness ==
  /\ closePromise = Pending
  /\ Len(returned) = 4
  /\ returned[1].op = "query"
  /\ returned[2].op = "close"
  /\ returned[3].op = "query"
  /\ returned[4].op = "getClient"
  /\ Len(sql.sent) = 2

\* the cursor of the query parameters (undefined when the key is absent)
CursorGiven == Get(input.o, "cursor")

\* C25: the validator accepts a cursor if and only if it is absent or a
\* string of 1 to 256 characters whose first and last characters are not
\* white space; an accepted cursor is passed on exactly as received; null,
\* the empty string, white-space-only strings, numbers, booleans, arrays
\* and objects are rejected.
C25_CursorAccepted ==
  pc = "done" =>
    /\ outcome.ok <=>
         \/ CursorGiven = Undefined
         \/ /\ CursorGiven.t = "string"
            /\ Len(CursorGiven.c) \in 1..256
            /\ CursorGiven.c[1] \notin WhiteSpace
            /\ CursorGiven.c[Len(CursorGiven.c)] \notin WhiteSpace
    /\ outcome.ok => outcome.value = CursorGiven
    /\ CursorGiven.t \in {"null", "number", "boolean", "array", "object"}
         => ~outcome.ok
    /\ (CursorGiven.t = "string"
          /\ \A j \in 1..Len(CursorGiven.c) : CursorGiven.c[j] \in WhiteSpace)
         => ~outcome.ok

\* a cursor of 256 characters was accepted as it is
C25_Witness ==
  /\ pc = "done"
  /\ CursorGiven.t = "string"
  /\ Len(CursorGiven.c) = 256
  /\ outcome.ok
  /\ outcome.value = CursorGiven

\* the order of the validation rules, by the code each reports
ErrorOrder ==
  <<"INVALID_CHECK_IN", "INVALID_CHECK_OUT", "ARRIVAL_AFTER_DEPARTURE",
    "STAY_TOO_SHORT", "INVALID_GUEST_COUNTS", "NO_GUESTS",
    "INVALID_LATITUDE", "INVALID_LONGITUDE">>

\* both dates of the request in can be parsed
DatesParse(in) == ~BadDate(in.checkIn) /\ ~BadDate(in.checkOut)

\* from the instant a to the instant b it is less than 24 hours
LessThanADay(a, b) ==
  b.day - a.day < 1 \/ (b.day - a.day = 1 /\ b.ms < a.ms)

\* children of the request in, 0 when absent
ChildrenOf(in) == IF IsNullish(in.children) THEN N(0) ELSE in.children

\* for each rule, in the order of ErrorOrder, whether the request in
\* violates it, whatever the other rules say
Violates(in) ==
  <<BadDate(in.checkIn),
    BadDate(in.checkOut),
    DatesParse(in) /\ TimeGE(DateOf(in.checkIn), DateOf(in.checkOut)),
    DatesParse(in) /\ LessThanADay(DateOf(in.checkIn), DateOf(in.checkOut)),
    BadCount(in.adults) \/ BadCount(ChildrenOf(in)),
    /\ NumberIsFinite(ToNumber(in.adults))
    /\ NumberIsFinite(ToNumber(ChildrenOf(in)))
    /\ NumLE(NumAdd(ToNumber(in.adults), ToNumber(ChildrenOf(in))),
             Int2Num(0)),
    OutOfRange(in.latitude, -90, 90),
    OutOfRange(in.longitude, -180, 180)>>

\* the first rule the request violates (0: none)
FirstOf(violated) ==
  IF \A k \in 1..8 : ~violated[k] THEN 0
  ELSE CHOOSE k \in 1..8 : violated[k] /\ \A m \in 1..(k - 1) : ~violated[m]

\* the requests a and b agree on every field the rules 1..k read
AgreeUpTo(a, b, k) ==
  /\ a.checkIn = b.checkIn
  /\ k >= 2 => a.checkOut = b.checkOut
  /\ k >= 5 => a.adults = b.adults /\ a.children = b.children
  /\ k >= 7 => a.latitude = b.latitude
  /\ k >= 8 => a.longitude = b.longitude

\* requests that differ from in in some of their fields
Variants(in) ==
  {[in EXCEPT !.checkIn = ci, !.checkOut = co, !.adults = gc[1],
              !.children = gc[2], !.latitude = la, !.longitude = lo,
              !.page = pg] :
     ci \in {in.checkIn, Txt(NotADate)},
     co \in {in.checkOut, Txt(Jan14), Undefined},
     gc \in {<<in.adults, in.children>>, <<N(0), N(0)>>, <<Num(NaN), N(1)>>},
     la \in {in.latitude, N(132)},
     lo \in {in.longitude, Num(PosInf)},
     pg \in {in.page, N(7)}}

\* buildSearchPlan(in) reported the k-th rule, and so does every request
\* that agrees with in up to that rule
FirstErrorWins(in, k) ==
  IF k = 0 THEN PlanBuilt
  ELSE /\ PlanFailedWith(ErrorOrder[k])
       /\ outcome = Rejected(Throw(ErrorOrder[k]))
       /\ \A other \in Variants(in) :
            AgreeUpTo(in, other, k)
              => buildSearchPlan(other) = Throw(ErrorOrder[k])

\* C26: once buildSearchPlan has run, it has reported exactly one error, the
\* first that applies in the order INVALID_CHECK_IN, INVALID_CHECK_OUT,
\* ARRIVAL_AFTER_DEPARTURE, STAY_TOO_SHORT, INVALID_GUEST_COUNTS, NO_GUESTS,
\* INVALID_LATITUDE, INVALID_LONGITUDE (a plan when none applies), and a
\* request that agrees with this one on every field up to the first failing
\* rule gets the same error.
C26_FirstErrorWins ==
  pc # "start" => FirstErrorWins(input, FirstOf(Violates(input)))

\* a request with bad guest counts, a sum of 0 and a bad position has
\* failed
C26_Witness ==
  /\ pc = "failed"
  /\ Violates(input)[5] /\ Violates(input)[6]
  /\ Violates(input)[7] /\ Violates(input)[8]
  /\ outcome.error.code = "INVALID_GUEST_COUNTS"

\* C27: with the stages as shipped, a run that does not fail returns an
\* empty page whatever the candidate stage found: no properties, total 0,
\* totalPages 1, page and pageSize as in the plan; the availability and
\* pricing stages resolve with an empty list whatever they are given, and
\* stayRules and ranking resolve with the list they are given.
C27_EmptyPageAsShipped ==
  /\ pc = "done" =>
       outcome = Fulfilled([properties |-> <<>>,
                            pagination |-> [page |-> plan.page,
                                            pageSize |-> plan.pageSize,
                                            total |-> 0,
                                            totalPages |-> Int2Num(1)]])
  /\ \A j \in 1..Len(settled) :
       settled[j].ok =>
         /\ settled[j].stage \in {"availability", "pricing"}
              => settled[j].value = <<>>
         /\ settled[j].stage \in {"stayRules", "ranking"}
              => settled[j].value = calls[j].arg

\* a run whose candidate stage found several properties has ended
C27_Witness ==
  /\ pc = "done"
  /\ Len(settled[1].value) >= 2
  /\ outcome.value.properties = <<>>

\* plan.options.candidateHardLimit is a number that is finite and above 0
OverrideGiven ==
  /\ OptionsGet(plan, "candidateHardLimit").t = "number"
  /\ NumberIsFinite(OptionsGet(plan, "candidateHardLimit").n)
  /\ NumGT(OptionsGet(plan, "candidateHardLimit").n, Int2Num(0))

\* the limit l is the default, or the override rounded down and capped
LimitAsResolved(l) ==
  IF OverrideGiven
    THEN l = MathMin(MathFloor(OptionsGet(plan, "candidateHardLimit").n),
                     Int2Num(3000))
  ELSE l = Int2Num(1000)

\* C28 as stated: the row limit bound to the candidate query is always a
\* whole number from 1 to 3000: 1000 by default, min(floor(override), 3000)
\* when options.candidateHardLimit is a finite number above 0; any other
\* override is ignored.
C28_AsStated ==
  \A j \in 1..Len(queries) :
    /\ LimitOf(queries[j]).k = "fin"
    /\ LimitOf(queries[j]).f = 0
    /\ LimitOf(queries[j]).i \in 1..3000
    /\ LimitAsResolved(LimitOf(queries[j]))

\* what holds of the limit: it is a whole number from 0 to 3000, resolved
\* as the claim says, and it is 0 exactly for an override between 0 and 1
C28_LimitResolved ==
  \A j \in 1..Len(queries) :
    /\ LimitOf(queries[j]).k = "fin"
    /\ LimitOf(queries[j]).f = 0
    /\ LimitOf(queries[j]).i \in 0..3000
    /\ LimitAsResolved(LimitOf(queries[j]))
    /\ LimitOf(queries[j]).i = 0 <=>
         (OverrideGiven
            /\ NumLT(OptionsGet(plan, "candidateHardLimit").n, Int2Num(1)))

\* a query was sent with LIMIT 0, and the store, which holds rows, answered
\* with none
C28_Witness ==
  /\ Len(queries) = 1
  /\ LimitOf(queries[1]) = Int2Num(0)
  /\ Len(table) >= 1
  /\ rows = Fulfilled(<<>>)

=============================================================================
